---- MODULE Spec2Model ----
(***************************************************************************)
(* Model of the heap allocator subsystem of abs-os: the bump allocator,    *)
(* the linked-list (free-list) allocator and the fixed-size-block          *)
(* allocator, each behind the Locked<A> spin-lock wrapper.                 *)
(*                                                                         *)
(* Addresses are byte addresses of a scaled-down address space of AddrBits *)
(* bits (usize is 64 bits in the kernel; TLC's integers are 32 bits).      *)
(* Memory is a partial map from 8-byte-aligned word addresses to values:   *)
(* a word is in the map once it has been written.                          *)
(***************************************************************************)
EXTENDS Integers, Sequences, FiniteSets, TLC

\* ------------------------------------------------------------------ bounds

\* Width of usize in the model.
AddrBits == 14
\* The heap has this many 8-byte words: per strategy, large enough for the
\* strategy's cases and small enough to explore (the kernel's has 12800).
BumpHeapWords == 4
LinkedHeapWords == 8
FixedHeapWords == 264
\* The low heap starts at page StartPage.
StartPage == 1
\* At most MaxLive allocations are live at a time.
MaxLive == 2
\* list_index is applied to sizes up to MaxIndexSize and to alignments up to
\* 2 ^ MaxIndexAlignLog.
MaxIndexSize == 2050
MaxIndexAlignLog == 12
\* init_heap maps a heap of this many pages, with at most this many usable
\* frames in the boot memory map.
BootHeapPages == 2
MaxUsableFrames == 3
\* While init_heap is followed, calls are made until this many words of
\* memory have been written.
MaxTouchedWords == 4
\* The screen has VgaHeight rows of VgaWidth columns (the kernel's has 25
\* rows of 80).
VgaWidth == 2
\* size_align is applied to every layout of size 1..MaxPadSize and alignment
\* 1, 2, ..., 2 ^ MaxPadAlignLog.
MaxPadSize == 40
MaxPadAlignLog == 6
\* Bytes of the heaps on which BumpAllocator::alloc is evaluated on its own.
CursorHeapSize == 32
\* Calls of _print that are followed, and frames on the stack (the code
\* that was interrupted and the handlers above it).
MaxPrints == 3
MaxFrames == 3
\* Interrupts that are delivered while the kernel prints.
MaxInterrupts == 3
\* Tasks spawned on the executor, and interrupts delivered while it runs.
MaxTasks == 2
MaxWakes == 3
\* Calls of add_scancode that are followed, and the capacity of the
\* scancode queue in the model (ArrayQueue::new(100) in the kernel).
MaxScancodes == 3
ScancodeQueueCap == 2
\* Memory maps of up to MaxRegions regions of frames 0..MaxFrameNumber-1,
\* and calls of allocate_frame that are followed.
MaxRegions == 2
MaxFrameNumber == 4
MaxFrameCalls == 6
VgaHeight == 3

\* ------------------------------------------------------- address arithmetic

USIZE_LIMIT == 2 ^ AddrBits
USIZE_MAX == USIZE_LIMIT - 1
ISIZE_MAX == 2 ^ (AddrBits - 1) - 1
PAGE_SIZE == 4096
NULL == 0

HEAP_START == StartPage * PAGE_SIZE
HeapSizeOf(s) ==
  8 * (CASE s = "bump" -> BumpHeapWords
         [] s = "linked" -> LinkedHeapWords
         [] OTHER -> FixedHeapWords)
\* A heap at the start of the upper half of the address space, where
\* next + size can exceed USIZE_MAX.
HIGH_HEAP_START == 2 ^ (AddrBits - 1)
HeapStarts == {HEAP_START, HIGH_HEAP_START}

RECURSIVE BitAnd(_, _)
BitAnd(a, b) ==
  IF a = 0 \/ b = 0 THEN 0
  ELSE (a % 2) * (b % 2) + 2 * BitAnd(a \div 2, b \div 2)

BitNot(a) == USIZE_MAX - a

\* addr + align - 1 exceeds usize: a panic in a build with overflow checks,
\* a wrap-around otherwise.
align_up_overflows(addr, align) == addr + align - 1 > USIZE_MAX

\* align_up that does not round.
align_up_identity(addr, align) == addr

align_up(addr, align) ==
  BitAnd((addr + align - 1) % USIZE_LIMIT, BitNot(align - 1))

\* usize::checked_add: NULL-free encoding, -1 stands for None.
checked_add(a, b) == IF a + b > USIZE_MAX THEN -1 ELSE a + b

Max(a, b) == IF a >= b THEN a ELSE b

\* ------------------------------------------------------------------ layouts

\* core::alloc::Layout: align is a power of two and size, rounded up to
\* align, does not exceed isize::MAX.
Layout(size, align) == [size |-> size, align |-> align]

\* A size that overflows usize when added to an upper-half address.
HugeSize == ISIZE_MAX - 7

\* The layouts the callers request (GlobalAlloc::alloc requires size > 0).
Layouts ==
  { Layout(4, 4), Layout(8, 8), Layout(24, 8), Layout(16, 32),
    Layout(2056, 8), Layout(HugeSize, 8) }

\* ------------------------------------------------------------------- state

VARIABLES
  strategy,     \* which allocator type the global ALLOCATOR is
  inited,       \* init has been called
  locked,       \* the spin::Mutex inside Locked<A>
  panicked,     \* an assertion, unwrap or overflow check has failed
  bump,         \* BumpAllocator: heap_start, heap_end, next, allocations
  head,         \* LinkedListAllocator.head.next (NULL is None)
  list_heads,   \* FixedSizeBlockAllocator.list_heads (NULL is None)
  mem,          \* memory: word address -> value, for words written so far
  written,      \* word addresses the allocator wrote in the last call
  live,         \* granted and not yet freed: [addr, layout]
  last,         \* the last call: [op, layout, ptr]
  pc,           \* where each execution context is in its call
  call,         \* each context's call in progress: [op, layout, ptr, region]
  owner,        \* the context whose MutexGuard is alive ("none" if none)
  heap,         \* the region handed to init: [start, size]
  boot,         \* init_heap: its position, the page table, the frame allocator
  vga,          \* the VGA Writer and the strings written to it last
  eval,         \* a function applied on its own: [f, in, done, out]
  console,      \* the interrupt flag, the console locks, the code that prints
  executor,     \* Executor::run: its position, the task queue, the CPU
  scancodes     \* ScancodeStream::poll_next: its position, queue and waker

vars == <<strategy, inited, locked, panicked, bump, head, list_heads, mem,
          written, live, last, pc, call, owner, heap, boot, vga, eval,
          console, executor, scancodes>>

\* The state of the allocator and of the memory it manages.
alloc_state == <<bump, head, list_heads, mem>>
\* The state of the execution contexts.
contexts_state == <<pc, call, owner>>
\* The state of the kernel outside the allocator.
\* The state of the code that runs with interrupts: printing, the executor
\* and the keyboard task.
async_state == <<console, executor, scancodes>>
kernel_state == <<boot, vga, eval, async_state>>

\* ------------------------------------------------------------ BumpAllocator

\* Result of a call on an allocator state: the new state, the pointer
\* returned, and whether the call panicked.
Outcome(st, ptr, panic) == [st |-> st, ptr |-> ptr, panic |-> panic]

\* A new allocator whose heap is the whole address space.
BumpAllocator_new_unbounded ==
  [heap_start |-> 0, heap_end |-> USIZE_MAX, next |-> 0, allocations |-> 0]

BumpAllocator_new ==
  [heap_start |-> 0, heap_end |-> 0, next |-> 0, allocations |-> 0]

\* An init that sets the bounds of the heap and leaves next where it was.
BumpAllocator_init_keeps_next(b, heap_start, heap_size) ==
  [b EXCEPT !.heap_start = heap_start, !.heap_end = heap_start + heap_size]

BumpAllocator_init(b, heap_start, heap_size) ==
  [b EXCEPT !.heap_start = heap_start,
            !.heap_end = heap_start + heap_size,
            !.next = heap_start]

\* Bump_alloc without the comparison with heap_end.
Bump_alloc_unchecked(b, layout, ovf) ==
  LET alloc_start == align_up(b.next, layout.align)
      alloc_end == checked_add(alloc_start, layout.size)
  IN  IF alloc_end = -1 THEN Outcome(b, NULL, FALSE)
      ELSE Outcome([b EXCEPT !.next = alloc_end,
                             !.allocations = b.allocations + 1],
                   alloc_start, FALSE)

\* Bump_alloc without the count of the allocation it grants.
Bump_alloc_uncounted(b, layout, ovf) ==
  LET alloc_start == align_up(b.next, layout.align)
      alloc_end == checked_add(alloc_start, layout.size)
  IN  IF alloc_end = -1 \/ alloc_end > b.heap_end THEN Outcome(b, NULL, FALSE)
      ELSE Outcome([b EXCEPT !.next = alloc_end], alloc_start, FALSE)

\* ovf is what an overflowing addition does in this build: "panic" or "wrap".
Bump_alloc(b, layout, ovf) ==
  IF align_up_overflows(b.next, layout.align) /\ ovf = "panic"
  THEN Outcome(b, NULL, TRUE)
  ELSE
    LET alloc_start == align_up(b.next, layout.align)
        alloc_end == checked_add(alloc_start, layout.size)
    IN  IF alloc_end = -1 THEN Outcome(b, NULL, FALSE)
        ELSE IF alloc_end > b.heap_end THEN Outcome(b, NULL, FALSE)
        ELSE Outcome([b EXCEPT !.next = alloc_end,
                               !.allocations = b.allocations + 1],
                     alloc_start, FALSE)

\* A dealloc that never resets next.
Bump_dealloc_no_reset(b, ovf) ==
  Outcome([b EXCEPT !.allocations = (b.allocations - 1) % USIZE_LIMIT],
          NULL, FALSE)

\* A dealloc that resets next whatever the count is.
Bump_dealloc_resets_always(b, ovf) ==
  Outcome([b EXCEPT !.allocations = (b.allocations - 1) % USIZE_LIMIT,
                    !.next = b.heap_start],
          NULL, FALSE)

Bump_dealloc(b, ovf) ==
  IF b.allocations = 0 /\ ovf = "panic"
  THEN Outcome(b, NULL, TRUE)
  ELSE
    LET n == (b.allocations - 1) % USIZE_LIMIT
    IN  Outcome([b EXCEPT !.allocations = n,
                          !.next = IF n = 0 THEN b.heap_start ELSE b.next],
                NULL, FALSE)

\* ------------------------------------------------------------------ memory

\* What callers store in their allocations (Box::new(41)).
USER_DATA == 41

\* A word that was never written reads as -9, which is no address, no size
\* and no user datum.
MemRead(m, a) == IF a \in DOMAIN m THEN m[a] ELSE -9

MemWrite(m, a, v) == [x \in DOMAIN m \cup {a} |-> IF x = a THEN v ELSE m[x]]

\* ------------------------------------------------------ LinkedListAllocator

\* mem::size_of::<ListNode>() and mem::align_of::<ListNode>() of
\* ListNode { size: usize, next: Option<&'static mut ListNode> }.
NODE_SIZE == 16
NODE_ALIGN == 8

\* The allocator together with the memory it manages: head is head.next,
\* a node at address a keeps size in word a and next in word a + 8.
LLState(h, m, w) == [head |-> h, mem |-> m, written |-> w]

NodeSize(m, a) == MemRead(m, a)
NodeNext(m, a) == MemRead(m, a + 8)
start_addr(a) == a
end_addr(m, a) == start_addr(a) + NodeSize(m, a)

\* Store v in word a and record the write.
Store(ll, a, v) ==
  [ll EXCEPT !.mem = MemWrite(ll.mem, a, v), !.written = @ \cup {a}]

LinkedListAllocator_new == NULL

\* add_free_region with the assertion on the size alone.
add_free_region_asserts_size_only(addr, size, ovf) == size >= NODE_SIZE

\* The two assertions of add_free_region.
add_free_region_asserts(addr, size, ovf) ==
  /\ ~(align_up_overflows(addr, NODE_ALIGN) /\ ovf = "panic")
  /\ align_up(addr, NODE_ALIGN) = addr
  /\ size >= NODE_SIZE

\* add_free_region that merges the region with the head node when that node
\* begins where the region ends.
add_free_region_merges_head(ll, addr, size, ovf) ==
  IF ~add_free_region_asserts(addr, size, ovf)
  THEN Outcome(ll, NULL, TRUE)
  ELSE IF ll.head # NULL /\ ll.head = addr + size
  THEN Outcome([Store(Store(ll, addr, size + NodeSize(ll.mem, ll.head)),
                      addr + 8, NodeNext(ll.mem, ll.head))
                  EXCEPT !.head = addr], NULL, FALSE)
  ELSE Outcome([Store(Store(ll, addr, size), addr + 8, ll.head)
                  EXCEPT !.head = addr], NULL, FALSE)

add_free_region(ll, addr, size, ovf) ==
  IF ~add_free_region_asserts(addr, size, ovf)
  THEN Outcome(ll, NULL, TRUE)
  ELSE
    LET node_next == ll.head
        w1 == Store(ll, addr, size)
        w2 == Store(w1, addr + 8, node_next)
    IN  Outcome([w2 EXCEPT !.head = addr], NULL, FALSE)

LinkedListAllocator_init(ll, heap_start, heap_size, ovf) ==
  add_free_region(ll, heap_start, heap_size, ovf)

\* alloc_from_region that does not compare alloc_end with the region's end.
alloc_from_region_unbounded(m, region, size, align, ovf) ==
  IF checked_add(align_up(start_addr(region), align), size) = -1 THEN -1
  ELSE align_up(start_addr(region), align)

\* alloc_from_region that accepts a region whatever is left of it.
alloc_from_region_any_excess(m, region, size, align, ovf) ==
  IF checked_add(align_up(start_addr(region), align), size) = -1 THEN -1
  ELSE IF checked_add(align_up(start_addr(region), align), size)
            > end_addr(m, region) THEN -1
  ELSE align_up(start_addr(region), align)

\* Ok(alloc_start), -1 for Err(()), -2 for an overflow panic in align_up.
alloc_from_region(m, region, size, align, ovf) ==
  IF align_up_overflows(start_addr(region), align) /\ ovf = "panic" THEN -2
  ELSE
    LET alloc_start == align_up(start_addr(region), align)
        alloc_end == checked_add(alloc_start, size)
    IN  IF alloc_end = -1 THEN -1
        ELSE IF alloc_end > end_addr(m, region) THEN -1
        ELSE
          LET excess_size == end_addr(m, region) - alloc_end
          IN  IF excess_size > 0 /\ excess_size < NODE_SIZE THEN -1
              ELSE alloc_start

\* unlink_region that leaves the region in the list.
unlink_region_skipped(ll, current, region) == ll

\* unlink_region that drops the nodes after the region as well.
unlink_region_truncates(ll, current, region) ==
  IF current = NULL
  THEN [Store(ll, region + 8, NULL) EXCEPT !.head = NULL]
  ELSE Store(Store(ll, region + 8, NULL), current + 8, NULL)

\* find_region takes region out of the list: region.next.take(),
\* current.next.take(), current.next = next (current = NULL is the head).
unlink_region(ll, current, region) ==
  LET next == NodeNext(ll.mem, region)
      u1 == Store(ll, region + 8, NULL)
  IN  IF current = NULL
      THEN [u1 EXCEPT !.head = next]
      ELSE Store(u1, current + 8, next)

\* The loop of find_region from the node `current` (NULL is the head
\* sentinel). Yields [ll, region, alloc_start, panic]; region = NULL when no
\* region was found. fuel bounds the traversal: a list that does not end
\* keeps the real loop running for ever, which is reported as panic here.
RECURSIVE find_region_from(_, _, _, _, _, _)
find_region_from(ll, current, size, align, ovf, fuel) ==
  LET region == IF current = NULL THEN ll.head ELSE NodeNext(ll.mem, current)
  IN  IF region = NULL
      THEN [ll |-> ll, region |-> NULL, alloc_start |-> NULL, panic |-> FALSE]
      ELSE IF fuel = 0
      THEN [ll |-> ll, region |-> NULL, alloc_start |-> NULL, panic |-> TRUE]
      ELSE
        LET r == alloc_from_region(ll.mem, region, size, align, ovf)
        IN  IF r = -2
            THEN [ll |-> ll, region |-> NULL, alloc_start |-> NULL, panic |-> TRUE]
            ELSE IF r >= 0
            THEN [ll |-> unlink_region(ll, current, region),
                  region |-> region, alloc_start |-> r, panic |-> FALSE]
            ELSE find_region_from(ll, region, size, align, ovf, fuel - 1)

find_region(ll, size, align, ovf) ==
  find_region_from(ll, NULL, size, align, ovf,
                   Cardinality(DOMAIN ll.mem) + 1)

\* Layout::align_to(align_of::<ListNode>()).pad_to_align(), then
\* size.max(size_of::<ListNode>()). align_to fails (and expect panics) when
\* the padded size exceeds isize::MAX.
\* A size_align that keeps the alignment of the layout.
size_align_align_unchanged(layout) == layout.align

size_align_align(layout) == Max(layout.align, NODE_ALIGN)
size_align_padded(layout) ==
  BitAnd(layout.size + size_align_align(layout) - 1,
         BitNot(size_align_align(layout) - 1))
size_align_fails(layout) == size_align_padded(layout) > ISIZE_MAX
\* A size_align that does not pad the size to the alignment.
size_align_size_unpadded(layout) == Max(layout.size, NODE_SIZE)

size_align_size(layout) == Max(size_align_padded(layout), NODE_SIZE)

\* An alloc that puts back a region as long as the one it found, whatever
\* it took from it.
Linked_alloc_excess_whole(ll, region, alloc_start, size, ovf) ==
  Outcome(add_free_region(ll, alloc_start + size, NodeSize(ll.mem, region),
                          ovf).st,
          alloc_start, FALSE)

\* The part of alloc after find_region has returned Some((region,
\* alloc_start)): the excess of the region goes back to the list.
Linked_alloc_excess(ll, region, alloc_start, size, ovf) ==
  LET alloc_end == checked_add(alloc_start, size)
      excess_size == end_addr(ll.mem, region) - alloc_end
  IN  IF alloc_end = -1 THEN Outcome(ll, NULL, TRUE)
      ELSE IF excess_size > 0
      THEN Outcome(add_free_region(ll, alloc_end, excess_size, ovf).st,
                   alloc_start,
                   add_free_region(ll, alloc_end, excess_size, ovf).panic)
      ELSE Outcome(ll, alloc_start, FALSE)

Linked_alloc_found(f, size, ovf) ==
  IF f.panic THEN Outcome(f.ll, NULL, TRUE)
  ELSE IF f.region = NULL THEN Outcome(f.ll, NULL, FALSE)
  ELSE Linked_alloc_excess(f.ll, f.region, f.alloc_start, size, ovf)

Linked_alloc(ll, layout, ovf) ==
  IF size_align_fails(layout) THEN Outcome(ll, NULL, TRUE)
  ELSE Linked_alloc_found(
         find_region(ll, size_align_size(layout), size_align_align(layout),
                     ovf),
         size_align_size(layout), ovf)

\* A dealloc that does not put the block on the list.
Linked_dealloc_forgets(ll, ptr, layout, ovf) == Outcome(ll, NULL, FALSE)

\* A dealloc that puts the block on the list twice, as a double free does.
Linked_dealloc_twice(ll, ptr, layout, ovf) ==
  IF size_align_fails(layout) THEN Outcome(ll, NULL, TRUE)
  ELSE add_free_region(add_free_region(ll, ptr, size_align_size(layout), ovf).st,
                       ptr, size_align_size(layout), ovf)

Linked_dealloc(ll, ptr, layout, ovf) ==
  IF size_align_fails(layout) THEN Outcome(ll, NULL, TRUE)
  ELSE add_free_region(ll, ptr, size_align_size(layout), ovf)

\* -------------------------------------------------- FixedSizeBlockAllocator

\* A class list with a class smaller than a list node.
BLOCK_SIZES_from_4 == <<4, 8, 16, 32, 64, 128, 256, 512, 1024, 2048>>

BLOCK_SIZES == <<8, 16, 32, 64, 128, 256, 512, 1024, 2048>>
\* Rust indexes BLOCK_SIZES and list_heads from 0.
BlockIndexes == 0..(Len(BLOCK_SIZES) - 1)
BlockSize(index) == BLOCK_SIZES[index + 1]

\* mem::size_of and mem::align_of of ListNode { next: Option<&mut ListNode> }.
LINK_SIZE == 8
LINK_ALIGN == 8

\* The allocator with its memory: list_heads[i] is the first free block of
\* class i (its word holds the next one), head is the fallback's free list.
FSState(lh, h, m, w) ==
  [list_heads |-> lh, head |-> h, mem |-> m, written |-> w]

FallbackOf(fs) == LLState(fs.head, fs.mem, fs.written)
WithFallback(fs, ll) ==
  [fs EXCEPT !.head = ll.head, !.mem = ll.mem, !.written = ll.written]

FixedSizeBlockAllocator_new == [i \in BlockIndexes |-> NULL]

\* linked_list_allocator::Heap, the fallback: a free-list allocator with
\* first-fit search.
Heap_empty == LinkedListAllocator_new
Heap_init(ll, heap_start, heap_size, ovf) ==
  LinkedListAllocator_init(ll, heap_start, heap_size, ovf)
Heap_allocate_first_fit(ll, layout, ovf) == Linked_alloc(ll, layout, ovf)
Heap_deallocate(ll, ptr, layout, ovf) == Linked_dealloc(ll, ptr, layout, ovf)

FixedSizeBlockAllocator_init(fs, heap_start, heap_size, ovf) ==
  LET o == Heap_init(FallbackOf(fs), heap_start, heap_size, ovf)
  IN  Outcome(WithFallback(fs, o.st), NULL, o.panic)

\* A fallback_alloc that asks for the alignment of a list node only.
fallback_alloc_node_aligned(fs, layout, ovf) ==
  LET o == Heap_allocate_first_fit(FallbackOf(fs),
                                   Layout(layout.size, LINK_ALIGN), ovf)
  IN  Outcome(WithFallback(fs, o.st), o.ptr, o.panic)

fallback_alloc(fs, layout, ovf) ==
  LET o == Heap_allocate_first_fit(FallbackOf(fs), layout, ovf)
  IN  Outcome(WithFallback(fs, o.st), o.ptr, o.panic)

\* A list_index that looks at the size alone.
list_index_by_size(layout) ==
  LET fits == { i \in BlockIndexes : BlockSize(i) >= layout.size }
  IN  IF fits = {} THEN -1
      ELSE CHOOSE i \in fits : \A j \in fits : i <= j

\* Some(index), or -1 for None: position() gives the first index that fits.
list_index(layout) ==
  LET size == Max(layout.size, layout.align)
      fits == { i \in BlockIndexes : BlockSize(i) >= size }
  IN  IF fits = {} THEN -1
      ELSE CHOOSE i \in fits : \A j \in fits : i <= j

\* Fixed_alloc that returns the head of the class list without unlinking it.
Fixed_alloc_no_pop(fs, layout, ovf) ==
  LET index == list_index(layout)
  IN  IF index # -1 /\ fs.list_heads[index] # NULL
      THEN Outcome([fs EXCEPT !.written = @ \cup {fs.list_heads[index]}],
                   fs.list_heads[index], FALSE)
      ELSE IF index # -1
      THEN fallback_alloc(fs, Layout(BlockSize(index), BlockSize(index)), ovf)
      ELSE fallback_alloc(fs, layout, ovf)

\* An alloc that asks the fallback for the requested layout when the class
\* list is empty.
Fixed_alloc_exact_request(fs, layout, ovf) ==
  IF list_index(layout) # -1 /\ fs.list_heads[list_index(layout)] # NULL
  THEN Outcome([fs EXCEPT
                  !.mem = MemWrite(fs.mem, fs.list_heads[list_index(layout)],
                                   NULL),
                  !.written = @ \cup {fs.list_heads[list_index(layout)]},
                  !.list_heads[list_index(layout)] =
                     MemRead(fs.mem, fs.list_heads[list_index(layout)])],
               fs.list_heads[list_index(layout)], FALSE)
  ELSE fallback_alloc(fs, layout, ovf)

\* An alloc that hands out the second block of a class list when there is
\* one, leaving the head in place.
Fixed_alloc_second_first(fs, layout, ovf) ==
  LET index == list_index(layout)
  IN  IF index # -1
      THEN
        LET node == fs.list_heads[index]
            next == IF node = NULL THEN NULL ELSE MemRead(fs.mem, node)
        IN  IF node # NULL /\ next # NULL
            THEN Outcome([fs EXCEPT
                            !.mem = MemWrite(MemWrite(fs.mem, node,
                                                      MemRead(fs.mem, next)),
                                             next, NULL),
                            !.written = @ \cup {node, next}],
                         next, FALSE)
            ELSE IF node # NULL
            THEN Outcome([fs EXCEPT !.mem = MemWrite(fs.mem, node, NULL),
                                    !.written = @ \cup {node},
                                    !.list_heads[index] = next],
                         node, FALSE)
            ELSE fallback_alloc(fs, Layout(BlockSize(index), BlockSize(index)),
                                ovf)
      ELSE fallback_alloc(fs, layout, ovf)

Fixed_alloc(fs, layout, ovf) ==
  LET index == list_index(layout)
  IN  IF index # -1
      THEN
        LET node == fs.list_heads[index]
        IN  IF node # NULL
            THEN
              \* list_heads[index] = node.next.take()
              LET next == MemRead(fs.mem, node)
                  t == [fs EXCEPT !.mem = MemWrite(fs.mem, node, NULL),
                                  !.written = @ \cup {node},
                                  !.list_heads[index] = next]
              IN  Outcome(t, node, FALSE)
            ELSE
              LET block_size == BlockSize(index)
                  block_align == block_size
              IN  fallback_alloc(fs, Layout(block_size, block_align), ovf)
      ELSE fallback_alloc(fs, layout, ovf)

\* The two assertions of dealloc.
dealloc_asserts(index) ==
  /\ LINK_SIZE <= BlockSize(index)
  /\ LINK_ALIGN <= BlockSize(index)

\* Fixed_dealloc that gives every block back to the fallback allocator.
Fixed_dealloc_to_fallback(fs, ptr, layout, ovf) ==
  Outcome(WithFallback(fs, Heap_deallocate(FallbackOf(fs), ptr, layout, ovf).st),
          NULL, Heap_deallocate(FallbackOf(fs), ptr, layout, ovf).panic)

\* A dealloc that pushes the block with no successor.
Fixed_dealloc_loses_list(fs, ptr, layout, ovf) ==
  IF list_index(layout) # -1
  THEN Outcome([fs EXCEPT !.mem = MemWrite(fs.mem, ptr, NULL),
                          !.written = @ \cup {ptr},
                          !.list_heads[list_index(layout)] = ptr],
               NULL, FALSE)
  ELSE Outcome(WithFallback(fs, Heap_deallocate(FallbackOf(fs), ptr, layout,
                                                ovf).st),
               NULL, FALSE)

\* A dealloc that gives a block of the largest class back to the fallback
\* and pushes every other block onto the list of the next larger class.
Fixed_dealloc_leaves_class(fs, ptr, layout, ovf) ==
  LET index == list_index(layout)
  IN  IF index # -1 /\ index + 1 \in BlockIndexes
      THEN Outcome([fs EXCEPT !.mem = MemWrite(fs.mem, ptr,
                                               fs.list_heads[index + 1]),
                              !.written = @ \cup {ptr},
                              !.list_heads[index + 1] = ptr],
                   NULL, FALSE)
      ELSE Outcome(WithFallback(fs, Heap_deallocate(FallbackOf(fs), ptr, layout,
                                                    ovf).st),
                   NULL, FALSE)

Fixed_dealloc(fs, ptr, layout, ovf) ==
  LET index == list_index(layout)
  IN  IF index # -1
      THEN
        LET new_node_next == fs.list_heads[index]
        IN  IF ~dealloc_asserts(index)
            THEN Outcome([fs EXCEPT !.list_heads[index] = NULL], NULL, TRUE)
            ELSE Outcome([fs EXCEPT !.mem = MemWrite(fs.mem, ptr, new_node_next),
                                    !.written = @ \cup {ptr},
                                    !.list_heads[index] = ptr],
                         NULL, FALSE)
      ELSE
        IF ptr = NULL THEN Outcome(fs, NULL, TRUE)
        ELSE
          LET o == Heap_deallocate(FallbackOf(fs), ptr, layout, ovf)
          IN  Outcome(WithFallback(fs, o.st), NULL, o.panic)

\* ------------------------------------------------- the global allocator

Strategies == {"bump", "linked", "fixed"}

\* What an overflowing usize addition does: panic (overflow checks on) or
\* wrap around (overflow checks off).
OverflowModes == {"panic", "wrap"}

Call(op, layout, ptr) == [op |-> op, layout |-> layout, ptr |-> ptr]

\* The execution contexts: the code running on two cores and an interrupt
\* handler that runs on the first core, on top of the code it interrupts.
Contexts == {"task1", "irq1", "task2"}
Interrupted(c) == IF c = "irq1" THEN "task1" ELSE "none"

CallInProgress(op, layout, ptr, region) ==
  [op |-> op, layout |-> layout, ptr |-> ptr, region |-> region]
NoCall == CallInProgress("none", Layout(0, 1), NULL, NULL)

\* spin::Mutex::lock spins until the mutex is free and then takes it; the
\* mutex does not know who holds it.
Mutex_lock_succeeds == ~locked

\* A lock() that does not look at the mutex.
LockFree_unchecked(c) == TRUE

\* A lock() that lets an interrupt handler in when the code it interrupted
\* holds the mutex.
LockFree_reentrant(c) == ~locked \/ owner = Interrupted(c)

\* Locked::lock is self.inner.lock(): it returns once the mutex is free,
\* whoever asks.
LockFree(c) == Mutex_lock_succeeds

\* A guard that alloc drops only on the paths that return a block.
GuardDropped_on_success(op, ptr) == op # "alloc" \/ ptr # NULL

\* The MutexGuard is a local of alloc and of dealloc: it is dropped, and the
\* mutex unlocked, on every path that returns.
GuardDropped(op, ptr) == TRUE

Allocation(addr, layout) == [addr |-> addr, layout |-> layout]

HeapRegion(start, size) == [start |-> start, size |-> size]

\* The caller stores its datum at the start of a granted block.
UserStore(m, ptr) ==
  IF ptr = NULL THEN m ELSE MemWrite(m, ptr - (ptr % 8), USER_DATA)

Granted(ptr, layout) ==
  IF ptr = NULL THEN live ELSE live \cup {Allocation(ptr, layout)}

\* init_heap has not been called.
BootNotStarted ==
  [pc |-> "idle", page |-> 0, mapped |-> <<>>, frames |-> <<>>,
   memory_map |-> <<>>, next |-> 0, got |-> <<>>,
   error |-> "none", inits |-> 0]

\* The allocator as the static ALLOCATOR is constructed, no call made yet.
InitAllocator ==
  /\ strategy \in Strategies
  /\ inited = FALSE
  /\ locked = FALSE
  /\ panicked = FALSE
  /\ bump = BumpAllocator_new
  /\ head = LinkedListAllocator_new
  /\ list_heads = FixedSizeBlockAllocator_new
  /\ mem = <<>>
  /\ written = {}
  /\ live = {}
  /\ last = Call("new", Layout(0, 1), NULL)
  /\ pc = [c \in Contexts |-> "idle"]
  /\ call = [c \in Contexts |-> NoCall]
  /\ owner = "none"
  /\ heap = HeapRegion(0, 0)

\* ----------------------------------------------------------- VGA text buffer

BUFFER_HEIGHT == VgaHeight
BUFFER_WIDTH == VgaWidth

\* b'\n', b' ', and the byte shown for one that is not printable.
NEWLINE == 10
SPACE == 32
UNPRINTABLE == 254

\* 0x20..=0x7e
Printable(byte) == byte \in 32..126

\* Writer: column_position and buffer.chars[row][col].ascii_character
\* (color_code never changes).
Writer(column_position, chars) ==
  [column_position |-> column_position, chars |-> chars]

BlankRow == [col \in 0..(BUFFER_WIDTH - 1) |-> SPACE]

\* A new_line that clears the last row without moving the rows up.
new_line_no_scroll(w) ==
  Writer(0, [w.chars EXCEPT ![BUFFER_HEIGHT - 1] = BlankRow])

\* Each row is copied to the row above, from the top down; then
\* clear_row(BUFFER_HEIGHT - 1) and column_position = 0.
new_line(w) ==
  Writer(0, [row \in 0..(BUFFER_HEIGHT - 1) |->
               IF row + 1 < BUFFER_HEIGHT THEN w.chars[row + 1]
               ELSE BlankRow])

write_byte(w, byte) ==
  IF byte = NEWLINE THEN new_line(w)
  ELSE
    LET v == IF w.column_position >= BUFFER_WIDTH THEN new_line(w) ELSE w
        row == BUFFER_HEIGHT - 1
        col == v.column_position
    IN  Writer(col + 1, [v.chars EXCEPT ![row][col] = byte])

RECURSIVE write_string(_, _)
write_string(w, s) ==
  IF s = <<>> THEN w
  ELSE write_string(
         write_byte(w, IF Printable(s[1]) \/ s[1] = NEWLINE THEN s[1]
                       ELSE UNPRINTABLE),
         Tail(s))

\* The screen before the kernel writes: WRITER starts in column 0, over
\* whatever the buffer holds.
VgaStarts ==
  { [writer |-> Writer(0, [row \in 0..(BUFFER_HEIGHT - 1) |->
                             [col \in 0..(BUFFER_WIDTH - 1) |-> c]]),
     strings |-> <<>>] : c \in {SPACE, 98} }

\* The Writer is not used.
VgaNotUsed == CHOOSE v \in VgaStarts : v.writer.chars[0][0] = SPACE

\* No function is being applied on its own.
NoEval == [f |-> "none", in |-> <<>>, done |-> TRUE, out |-> 0]

\* The kernel apart from the allocator is idle.
\* Nothing prints: interrupts are off, the locks of WRITER and SERIAL1 are
\* free (0) and no code is on the stack.
ConsoleNotUsed ==
  [ifl |-> FALSE, lock |-> [l \in {"WRITER", "SERIAL1"} |-> 0],
   frames |-> <<>>, prints |-> 0, irqs |-> 0, written |-> <<>>]

\* No executor was made.
ExecutorNotRunning ==
  [pc |-> "off", ifl |-> FALSE, queue |-> <<>>, tasks |-> {}, cur |-> 0,
   wakes |-> 0, from_hlt |-> FALSE, panic |-> FALSE]

\* SCANCODE_QUEUE is OnceCell::uninit() and WAKER is AtomicWaker::new().
ScancodesNotUsed ==
  [pc |-> "off", inited |-> FALSE, queue |-> <<>>, waker |-> FALSE,
   runnable |-> FALSE, result |-> "none", pushes |-> 0]

AsyncIdle ==
  /\ console = ConsoleNotUsed
  /\ executor = ExecutorNotRunning
  /\ scancodes = ScancodesNotUsed

KernelIdle ==
  boot = BootNotStarted /\ vga = VgaNotUsed /\ eval = NoEval /\ AsyncIdle

Init == InitAllocator /\ KernelIdle

\* A call can start: the kernel has not halted in a panic and lock() finds
\* the mutex free.
CanCall == ~panicked /\ LockFree("task1")

\* A whole call made while no other context is in the allocator: lock(),
\* the body, and the drop of the guard on return. A panic leaves the guard
\* alive: the mutex is never unlocked.
AfterCall(panic, op, ptr) ==
  /\ panicked' = panic
  /\ locked' = (panic \/ ~GuardDropped(op, ptr))
  /\ UNCHANGED contexts_state
  /\ UNCHANGED kernel_state

BumpInit ==
  /\ strategy = "bump" /\ CanCall /\ ~inited
  /\ \E hs \in HeapStarts :
       /\ bump' = BumpAllocator_init(bump, hs, HeapSizeOf(strategy))
       /\ heap' = HeapRegion(hs, HeapSizeOf(strategy))
  /\ inited' = TRUE
  /\ written' = {}
  /\ last' = Call("init", Layout(0, 1), NULL)
  /\ AfterCall(FALSE, "init", NULL)
  /\ UNCHANGED <<strategy, head, list_heads, mem, live>>

BumpAlloc ==
  /\ strategy = "bump" /\ CanCall /\ Cardinality(live) < MaxLive
  /\ \E layout \in Layouts, ovf \in OverflowModes :
       \E o \in {Bump_alloc(bump, layout, ovf)} :
           /\ bump' = o.st
           /\ AfterCall(o.panic, "alloc", o.ptr)
           /\ mem' = IF o.panic THEN mem ELSE UserStore(mem, o.ptr)
           /\ live' = IF o.panic THEN live ELSE Granted(o.ptr, layout)
           /\ last' = Call("alloc", layout, o.ptr)
  /\ written' = {}
  /\ UNCHANGED <<heap, strategy, inited, head, list_heads>>

BumpDealloc ==
  /\ strategy = "bump" /\ CanCall
  /\ \E a \in live, ovf \in OverflowModes :
       \E o \in {Bump_dealloc(bump, ovf)} :
           /\ bump' = o.st
           /\ AfterCall(o.panic, "dealloc", a.addr)
           /\ live' = live \ {a}
           /\ last' = Call("dealloc", a.layout, a.addr)
  /\ written' = {}
  /\ UNCHANGED <<heap, strategy, inited, head, list_heads, mem>>

LinkedInit ==
  /\ strategy = "linked" /\ CanCall /\ ~inited
  /\ \E hs \in HeapStarts, ovf \in OverflowModes :
       \E o \in {LinkedListAllocator_init(LLState(head, mem, {}), hs,
                                         HeapSizeOf(strategy), ovf)} :
           /\ head' = o.st.head
           /\ mem' = o.st.mem
           /\ written' = o.st.written
           /\ AfterCall(o.panic, "init", NULL)
           /\ heap' = HeapRegion(hs, HeapSizeOf(strategy))
  /\ inited' = TRUE
  /\ last' = Call("init", Layout(0, 1), NULL)
  /\ UNCHANGED <<strategy, bump, list_heads, live>>

LinkedAlloc ==
  /\ strategy = "linked" /\ CanCall /\ Cardinality(live) < MaxLive
  /\ \E layout \in Layouts, ovf \in OverflowModes :
       \E o \in {Linked_alloc(LLState(head, mem, {}), layout, ovf)} :
           /\ head' = o.st.head
           /\ written' = o.st.written
           /\ AfterCall(o.panic, "alloc", o.ptr)
           /\ mem' = IF o.panic THEN o.st.mem ELSE UserStore(o.st.mem, o.ptr)
           /\ live' = IF o.panic THEN live ELSE Granted(o.ptr, layout)
           /\ last' = Call("alloc", layout, o.ptr)
  /\ UNCHANGED <<heap, strategy, inited, bump, list_heads>>

LinkedDealloc ==
  /\ strategy = "linked" /\ CanCall
  /\ \E a \in live, ovf \in OverflowModes :
       \E o \in {Linked_dealloc(LLState(head, mem, {}), a.addr, a.layout, ovf)} :
           /\ head' = o.st.head
           /\ mem' = o.st.mem
           /\ written' = o.st.written
           /\ AfterCall(o.panic, "dealloc", a.addr)
           /\ live' = live \ {a}
           /\ last' = Call("dealloc", a.layout, a.addr)
  /\ UNCHANGED <<heap, strategy, inited, bump, list_heads>>

\* init_heap: ALLOCATOR.lock().init(HEAP_START, HEAP_SIZE)
FixedInit ==
  /\ strategy = "fixed" /\ CanCall /\ ~inited
  /\ \E hs \in HeapStarts, ovf \in OverflowModes :
       \E o \in {FixedSizeBlockAllocator_init(
                  FSState(list_heads, head, mem, {}), hs, HeapSizeOf(strategy), ovf)} :
           /\ list_heads' = o.st.list_heads
           /\ head' = o.st.head
           /\ mem' = o.st.mem
           /\ written' = o.st.written
           /\ AfterCall(o.panic, "init", NULL)
           /\ heap' = HeapRegion(hs, HeapSizeOf(strategy))
  /\ inited' = TRUE
  /\ last' = Call("init", Layout(0, 1), NULL)
  /\ UNCHANGED <<strategy, bump, live>>

FixedAlloc ==
  /\ strategy = "fixed" /\ CanCall /\ Cardinality(live) < MaxLive
  /\ \E layout \in Layouts, ovf \in OverflowModes :
       \E o \in {Fixed_alloc(FSState(list_heads, head, mem, {}), layout, ovf)} :
           /\ list_heads' = o.st.list_heads
           /\ head' = o.st.head
           /\ written' = o.st.written
           /\ AfterCall(o.panic, "alloc", o.ptr)
           /\ mem' = IF o.panic THEN o.st.mem ELSE UserStore(o.st.mem, o.ptr)
           /\ live' = IF o.panic THEN live ELSE Granted(o.ptr, layout)
           /\ last' = Call("alloc", layout, o.ptr)
  /\ UNCHANGED <<heap, strategy, inited, bump>>

FixedDealloc ==
  /\ strategy = "fixed" /\ CanCall
  /\ \E a \in live, ovf \in OverflowModes :
       \E o \in {Fixed_dealloc(FSState(list_heads, head, mem, {}), a.addr,
                              a.layout, ovf)} :
           /\ list_heads' = o.st.list_heads
           /\ head' = o.st.head
           /\ mem' = o.st.mem
           /\ written' = o.st.written
           /\ AfterCall(o.panic, "dealloc", a.addr)
           /\ live' = live \ {a}
           /\ last' = Call("dealloc", a.layout, a.addr)
  /\ UNCHANGED <<heap, strategy, inited, bump>>

Next ==
  \/ BumpInit \/ BumpAlloc \/ BumpDealloc
  \/ LinkedInit \/ LinkedAlloc \/ LinkedDealloc
  \/ FixedInit \/ FixedAlloc \/ FixedDealloc

Spec == Init /\ [][Next]_vars

\* ---------------------------------------------------------------- init_heap

\* Page::containing_address, as a page number.
Page_containing_address(addr) == addr \div PAGE_SIZE

\* A page range that stops one page short.
page_range_without_last(heap_start, heap_size) ==
  Page_containing_address(heap_start)
    .. (Page_containing_address(heap_start + heap_size - 1) - 1)

\* Page::range_inclusive(heap_start_page, heap_end_page)
page_range(heap_start, heap_size) ==
  Page_containing_address(heap_start)
    .. Page_containing_address(heap_start + heap_size - 1)

\* HEAP_SIZE of the kernel, and the heap init_heap sets up in the model.
KERNEL_HEAP_SIZE == 100 * 1024
BOOT_HEAP_SIZE == BootHeapPages * PAGE_SIZE

HeapPageFlags == {"PRESENT", "WRITABLE"}

\* A region of the bootloader's memory map: the frames start_frame to
\* end_frame - 1, usable or not.
MemoryRegion(start_frame, end_frame, region_type) ==
  [start_frame |-> start_frame, end_frame |-> end_frame,
   region_type |-> region_type]

\* The frame an address lies in, named by its first address.
PhysFrame_containing_address(addr) == addr - (addr % PAGE_SIZE)

\* (r.range.start_addr()..r.range.end_addr()).step_by(4096), each address
\* turned into its frame.
region_frames(r) ==
  LET start_addr_ == r.start_frame * PAGE_SIZE
      end_addr_ == r.end_frame * PAGE_SIZE
      steps == (end_addr_ - start_addr_ + PAGE_SIZE - 1) \div PAGE_SIZE
  IN  [i \in 1..steps |->
         PhysFrame_containing_address(start_addr_ + (i - 1) * PAGE_SIZE)]

\* usable_frames: the frames of the usable regions from region i on, in
\* the order of the map.
RECURSIVE usable_frames_from(_, _)
usable_frames_from(memory_map, i) ==
  IF i > Len(memory_map) THEN <<>>
  ELSE (IF memory_map[i].region_type = "Usable"
        THEN region_frames(memory_map[i]) ELSE <<>>)
       \o usable_frames_from(memory_map, i + 1)

usable_frames(memory_map) == usable_frames_from(memory_map, 1)

\* allocate_frame that does not move next.
allocate_frame_again(b) ==
  LET frames == usable_frames(b.memory_map)
      frame == IF b.next < Len(frames) THEN frames[b.next + 1] ELSE -1
  IN  [frame |-> frame, boot |-> [b EXCEPT !.got = Append(@, frame)]]

\* BootInfoFrameAllocator::allocate_frame: usable_frames().nth(self.next),
\* and next goes up whether there is a frame or not. -1 stands for None;
\* got is the list of what the calls have returned.
allocate_frame(b) ==
  LET frames == usable_frames(b.memory_map)
      frame == IF b.next < Len(frames) THEN frames[b.next + 1] ELSE -1
  IN  [frame |-> frame,
       boot |-> [b EXCEPT !.next = @ + 1, !.got = Append(@, frame)]]

\* Mapper::map_to of the x86_64 crate: it fails when the page is mapped
\* already, and when it needs a frame for a page table and gets none.
Mapper_map_to(b, page, flags, needs_table) ==
  IF page \in DOMAIN b.mapped
  THEN [error |-> "PageAlreadyMapped", boot |-> b]
  ELSE
    LET t == IF needs_table THEN allocate_frame(b)
             ELSE [frame |-> 0, boot |-> b]
    IN  IF t.frame = -1
        THEN [error |-> "FrameAllocationFailed", boot |-> t.boot]
        ELSE [error |-> "none",
              boot |-> [t.boot EXCEPT !.mapped = (page :> flags) @@ @]]

\* An error that does not end init_heap.
question_mark_ignored(error, continue_pc) == continue_pc

\* The ? operator: an error returns it from init_heap at once.
question_mark(error, continue_pc) ==
  IF error = "none" THEN continue_pc ELSE "err"

\* One turn of the loop of init_heap on boot state b.
map_page(b, needs_table) ==
  LET f == allocate_frame(b)
      r == IF f.frame = -1
           THEN [error |-> "FrameAllocationFailed", boot |-> f.boot]
           ELSE Mapper_map_to(f.boot, b.page, HeapPageFlags, needs_table)
      more == b.page + 1 \in page_range(HEAP_START, BOOT_HEAP_SIZE)
  IN  [r.boot EXCEPT
         !.error = IF r.error = "none" THEN @ ELSE r.error,
         !.frames = IF r.error = "none" THEN (b.page :> f.frame) @@ @ ELSE @,
         !.page = b.page + 1,
         !.pc = question_mark(r.error, IF more THEN "loop" ELSE "init")]

\* init_heap is entered: the frame allocator has some usable frames, and
\* the last page of the heap may be mapped already.
BootStarts ==
  { [BootNotStarted EXCEPT
       !.pc = "loop",
       !.page = Page_containing_address(HEAP_START),
       !.memory_map = <<MemoryRegion(1, 1 + u, "Usable")>>,
       !.mapped = m] :
    u \in 0..MaxUsableFrames,
    m \in { <<>>,
            (Page_containing_address(HEAP_START + BOOT_HEAP_SIZE - 1)
               :> {"PRESENT"}) } }

InitBoot ==
  InitAllocator /\ boot \in BootStarts /\ vga = VgaNotUsed /\ eval = NoEval
  /\ AsyncIdle

MapPage ==
  /\ boot.pc = "loop"
  /\ \E needs_table \in BOOLEAN : boot' = map_page(boot, needs_table)
  /\ UNCHANGED <<strategy, inited, locked, panicked, alloc_state, written,
                 live, last, contexts_state, heap, vga, eval, async_state>>

\* The state of ALLOCATOR after init(heap_start, heap_size).
ALLOCATOR_init(heap_start, heap_size, ovf) ==
  LET fs == FSState(list_heads, head, mem, {})
  IN  CASE strategy = "bump" ->
             [bump |-> BumpAllocator_init(bump, heap_start, heap_size),
              fs |-> fs, panic |-> FALSE]
        [] strategy = "linked" ->
             LET o == LinkedListAllocator_init(FallbackOf(fs), heap_start,
                                               heap_size, ovf)
             IN  [bump |-> bump, fs |-> WithFallback(fs, o.st),
                  panic |-> o.panic]
        [] OTHER ->
             LET o == FixedSizeBlockAllocator_init(fs, heap_start, heap_size,
                                                   ovf)
             IN  [bump |-> bump, fs |-> o.st, panic |-> o.panic]

\* ALLOCATOR.lock().init(HEAP_START, HEAP_SIZE), then Ok(()).
InitHeapInit ==
  /\ boot.pc = "init" /\ CanCall
  /\ \E ovf \in OverflowModes :
       \E o \in {ALLOCATOR_init(HEAP_START, BOOT_HEAP_SIZE, ovf)} :
           /\ bump' = o.bump
           /\ head' = o.fs.head
           /\ list_heads' = o.fs.list_heads
           /\ mem' = o.fs.mem
           /\ written' = o.fs.written
           /\ panicked' = o.panic
           /\ locked' = o.panic
  /\ heap' = HeapRegion(HEAP_START, BOOT_HEAP_SIZE)
  /\ inited' = TRUE
  /\ last' = Call("init", Layout(0, 1), NULL)
  /\ boot' = [boot EXCEPT !.pc = "ok", !.inits = @ + 1]
  /\ UNCHANGED <<strategy, live, contexts_state, vga, eval, async_state>>

\* The kernel allocates and frees, before, during and after init_heap,
\* until MaxTouchedWords words of memory have been written.
HeapCalls ==
  /\ Cardinality(DOMAIN mem) < MaxTouchedWords
  /\ \/ BumpAlloc \/ BumpDealloc
     \/ LinkedAlloc \/ LinkedDealloc
     \/ FixedAlloc \/ FixedDealloc

NextBoot == MapPage \/ InitHeapInit \/ HeapCalls

SpecBoot == InitBoot /\ [][NextBoot]_vars

\* ------------------------------------------- the frame allocator on its own

\* Memory maps as the bootloader passes them: regions that share no frame,
\* in any order, usable or not, some of them empty.
FrameRegions ==
  { MemoryRegion(s, e, t) :
      s \in 0..MaxFrameNumber, e \in 0..MaxFrameNumber,
      t \in {"Usable", "Reserved"} }

FrameMaps ==
  { m \in UNION { [1..n -> FrameRegions] : n \in 0..MaxRegions } :
      /\ \A i \in DOMAIN m : m[i].start_frame <= m[i].end_frame
      /\ \A i, j \in DOMAIN m :
           i < j => \/ m[i].end_frame <= m[j].start_frame
                    \/ m[j].end_frame <= m[i].start_frame }

\* BootInfoFrameAllocator::init(&boot_info.memory_map), and init_heap is
\* entered.
InitFrames ==
  /\ InitAllocator /\ strategy = "bump"
  /\ vga = VgaNotUsed /\ eval = NoEval /\ AsyncIdle
  /\ boot \in { [BootNotStarted EXCEPT
                   !.pc = "loop",
                   !.page = Page_containing_address(HEAP_START),
                   !.memory_map = m] : m \in FrameMaps }

\* frame_allocator.allocate_frame(), called after init_heap has returned.
AllocateFrame ==
  /\ boot.pc \in {"init", "err"} /\ boot.next < MaxFrameCalls
  /\ boot' = allocate_frame(boot).boot
  /\ UNCHANGED <<strategy, inited, locked, panicked, alloc_state, written,
                 live, last, contexts_state, heap, vga, eval, async_state>>

NextFrames == MapPage \/ AllocateFrame

SpecFrames == InitFrames /\ [][NextFrames]_vars

\* -------------------------------------------------------- writes to the VGA

\* The strings passed to write_str: a newline, strings of printable
\* characters of one character, of a full row and of more than a row, and a
\* byte that is not printable.
VgaStrings ==
  { <<NEWLINE>>, <<97>>, [i \in 1..BUFFER_WIDTH |-> 97 + (i % 2)],
    [i \in 1..(BUFFER_WIDTH + 1) |-> 98 - (i % 2)], <<7>> }

\* The last three strings written, the latest last.
LastStrings(strings, s) ==
  IF Len(strings) < 3 THEN Append(strings, s) ELSE Append(Tail(strings), s)

\* fmt::Write::write_str, with the Writer locked
WriteStr ==
  /\ \E s \in VgaStrings :
       vga' = [writer |-> write_string(vga.writer, s),
               strings |-> LastStrings(vga.strings, s)]
  /\ UNCHANGED <<strategy, inited, locked, panicked, alloc_state, written,
                 live, last, contexts_state, heap, boot, eval, async_state>>

InitVga ==
  InitAllocator /\ boot = BootNotStarted /\ vga \in VgaStarts /\ eval = NoEval
  /\ AsyncIdle

NextVga == WriteStr

SpecVga == InitVga /\ [][NextVga]_vars

\* ------------------------------------------------- list_index on its own

IndexLayouts ==
  { Layout(size, 2 ^ k) : size \in 1..MaxIndexSize, k \in 0..MaxIndexAlignLog }

InitIndex ==
  /\ InitAllocator /\ strategy = "fixed"
  /\ boot = BootNotStarted /\ vga = VgaNotUsed /\ AsyncIdle
  /\ eval \in { [f |-> "list_index", in |-> layout, done |-> FALSE, out |-> 0] :
                 layout \in IndexLayouts }

ListIndex ==
  /\ eval.f = "list_index" /\ ~eval.done
  /\ eval' = [eval EXCEPT !.done = TRUE, !.out = list_index(eval.in)]
  /\ UNCHANGED <<strategy, inited, locked, panicked, alloc_state, written,
                 live, last, contexts_state, heap, boot, vga, async_state>>

NextIndex == ListIndex

SpecIndex == InitIndex /\ [][NextIndex]_vars

\* --------------------------- size_align, and a layout through alloc/dealloc

PadLayouts ==
  { Layout(size, 2 ^ k) : size \in 1..MaxPadSize, k \in 0..MaxPadAlignLog }

InitPad ==
  /\ InitAllocator /\ strategy = "linked"
  /\ boot = BootNotStarted /\ vga = VgaNotUsed /\ AsyncIdle
  /\ eval \in { [f |-> "size_align", in |-> layout, done |-> FALSE, out |-> <<0, 0>>] :
                 layout \in PadLayouts }

\* init is called with a start that is or is not node-aligned, the last
\* one so close to the end of the address space that align_up overflows, and
\* with a size below, at and above the size of a node.
InitStarts ==
  HeapStarts \cup {HEAP_START + 1, HEAP_START + 4, HEAP_START + 8, USIZE_MAX - 2}
InitSizes == {0, 8, NODE_SIZE - 1, NODE_SIZE, 20, 40, HeapSizeOf("linked")}

\* ALLOCATOR.lock().init(heap_start, heap_size)
LinkedInitAny ==
  /\ strategy = "linked" /\ CanCall /\ ~inited
  /\ \E hs \in InitStarts, size \in InitSizes, ovf \in OverflowModes :
       \E o \in {LinkedListAllocator_init(LLState(head, mem, {}), hs, size, ovf)} :
           /\ head' = o.st.head
           /\ mem' = o.st.mem
           /\ written' = o.st.written
           /\ AfterCall(o.panic, "init", NULL)
           /\ heap' = HeapRegion(hs, size)
  /\ inited' = TRUE
  /\ last' = Call("init", Layout(0, 1), NULL)
  /\ UNCHANGED <<strategy, bump, list_heads, live, eval>>

SizeAlign ==
  /\ eval.f = "size_align" /\ ~eval.done /\ ~size_align_fails(eval.in)
  /\ eval' = [eval EXCEPT !.done = TRUE,
                          !.out = <<size_align_size(eval.in),
                                    size_align_align(eval.in)>>]
  /\ UNCHANGED <<strategy, inited, locked, panicked, alloc_state, written,
                 live, last, contexts_state, heap, boot, vga, async_state>>

\* ALLOCATOR.alloc(layout) with the layout under evaluation.
PadAlloc ==
  /\ strategy = "linked" /\ CanCall /\ Cardinality(live) < MaxLive
  /\ eval.f = "size_align" /\ eval.done
  /\ \E layout \in {eval.in}, ovf \in OverflowModes :
       \E o \in {Linked_alloc(LLState(head, mem, {}), layout, ovf)} :
           /\ head' = o.st.head
           /\ written' = o.st.written
           /\ AfterCall(o.panic, "alloc", o.ptr)
           /\ mem' = IF o.panic THEN o.st.mem ELSE UserStore(o.st.mem, o.ptr)
           /\ live' = IF o.panic THEN live ELSE Granted(o.ptr, layout)
           /\ last' = Call("alloc", layout, o.ptr)
  /\ UNCHANGED <<heap, strategy, inited, bump, list_heads>>

NextPad == SizeAlign \/ LinkedInitAny \/ PadAlloc \/ LinkedDealloc

SpecPad == InitPad /\ [][NextPad]_vars

\* ----------------------------------- BumpAllocator::alloc at any cursor

\* Heaps of CursorHeapSize bytes: the kernel's, one that ends eight bytes
\* below the end of the address space, and one that ends at its last byte.
CursorStarts ==
  {HEAP_START, USIZE_MAX - CursorHeapSize - 7, USIZE_MAX - CursorHeapSize}

CursorLayouts == Layouts \cup {Layout(1, 1), Layout(2, 2), Layout(3, 1)}

\* The allocator after init(hs, CursorHeapSize) and allocations that
\* moved next to any address of the heap.
CursorBumps ==
  UNION { { [BumpAllocator_init(BumpAllocator_new, hs, CursorHeapSize)
               EXCEPT !.next = next, !.allocations = allocations] :
              next \in hs..(hs + CursorHeapSize), allocations \in 0..2 } :
          hs \in CursorStarts }

CursorInputs ==
  { in \in [b : CursorBumps, layout : CursorLayouts] :
      in.b.allocations = 0 <=> in.b.next = in.b.heap_start }

InitCursor ==
  /\ InitAllocator /\ strategy = "bump"
  /\ boot = BootNotStarted /\ vga = VgaNotUsed /\ AsyncIdle
  /\ eval \in { [f |-> "Bump_alloc", in |-> in, done |-> FALSE,
                 out |-> Outcome(in.b, NULL, FALSE)] : in \in CursorInputs }

\* bump.alloc(layout) with the allocator and the layout under evaluation.
CursorAlloc ==
  /\ eval.f = "Bump_alloc" /\ ~eval.done
  /\ \E ovf \in OverflowModes :
       eval' = [eval EXCEPT !.done = TRUE,
                            !.out = Bump_alloc(eval.in.b, eval.in.layout, ovf)]
  /\ UNCHANGED <<strategy, inited, locked, panicked, alloc_state, written,
                 live, last, contexts_state, heap, boot, vga, async_state>>

NextCursor == CursorAlloc

SpecCursor == InitCursor /\ [][NextCursor]_vars

\* ------------------------------------------------ printing and interrupts

\* The body of _print in the order of its effects: without_interrupts saves
\* the interrupt flag and clears it, lock() spins until it has the lock,
\* write_fmt writes, the guard is dropped at the end of the statement, and
\* without_interrupts sets the flag again if it was set.
PRINT_STEPS_unguarded == <<"lock", "write_fmt", "unlock">>

PRINT_STEPS == <<"disable", "lock", "write_fmt", "unlock", "restore">>

ConsoleLocks == {"WRITER", "SERIAL1"}
Handlers == {"timer", "keyboard"}

\* Code on the stack: where it is in _print (0: outside), the lock _print
\* is called for, the flag without_interrupts saved, and the calls of print!
\* a handler has still to make.
Frame(ctx, todo) ==
  [ctx |-> ctx, at |-> 0, target |-> "WRITER", saved |-> FALSE, todo |-> todo]

Depth == Len(console.frames)
Top == console.frames[Depth]

\* One step of _print by the code on top of the stack of c.
print_step(c) ==
  LET depth == Len(c.frames)
      f == c.frames[depth]
      step == PRINT_STEPS[f.at]
      moved == [c EXCEPT !.frames[depth].at =
                           IF f.at = Len(PRINT_STEPS) THEN 0 ELSE f.at + 1]
  IN  CASE step = "disable" ->
             [moved EXCEPT !.frames[depth].saved = c.ifl, !.ifl = FALSE]
        [] step = "lock" -> [moved EXCEPT !.lock[f.target] = depth]
        [] step = "write_fmt" ->
             [moved EXCEPT !.written = Append(@, <<f.target, f.ctx>>)]
        [] step = "unlock" -> [moved EXCEPT !.lock[f.target] = 0]
        [] step = "restore" ->
             [moved EXCEPT !.frames[depth].saved = FALSE,
                           !.ifl = IF f.saved THEN TRUE ELSE @]

ConsoleOnly ==
  UNCHANGED <<strategy, inited, locked, panicked, alloc_state, written, live,
              last, contexts_state, heap, boot, vga, eval, executor, scancodes>>

InitConsole ==
  /\ InitAllocator
  /\ boot = BootNotStarted /\ vga = VgaNotUsed /\ eval = NoEval
  /\ executor = ExecutorNotRunning /\ scancodes = ScancodesNotUsed
  /\ console = [ConsoleNotUsed EXCEPT !.frames = <<Frame("main", 0)>>]

\* kernel_main or a test calls print! or serial_print!.
PrintCall ==
  /\ Depth >= 1 /\ Top.ctx = "main" /\ Top.at = 0
  /\ console.prints < MaxPrints
  /\ \E target \in ConsoleLocks :
       console' = [console EXCEPT !.frames[Depth].at = 1,
                                  !.frames[Depth].target = target,
                                  !.prints = @ + 1]
  /\ ConsoleOnly

\* init(): x86_64::instructions::interrupts::enable()
EnableInterrupts ==
  /\ Depth = 1 /\ Top.at = 0 /\ ~console.ifl
  /\ console' = [console EXCEPT !.ifl = TRUE]
  /\ ConsoleOnly

\* The timer or the keyboard interrupts the code on top of the stack: the
\* handler is entered with the interrupt flag cleared. The timer handler
\* prints once, the keyboard handler when the scancode completes a key.
Interrupt ==
  /\ Depth >= 1 /\ Depth < MaxFrames /\ console.ifl
  /\ console.irqs < MaxInterrupts
  /\ \E f \in {Frame("timer", 1), Frame("keyboard", 0), Frame("keyboard", 1)} :
       /\ console.prints + f.todo <= MaxPrints
       /\ console' = [console EXCEPT !.frames = Append(@, f),
                                     !.ifl = FALSE,
                                     !.irqs = @ + 1,
                                     !.prints = @ + f.todo]
  /\ ConsoleOnly

\* The handler calls print!.
HandlerPrint ==
  /\ Depth >= 1 /\ Top.ctx \in Handlers /\ Top.at = 0 /\ Top.todo > 0
  /\ console' = [console EXCEPT !.frames[Depth].at = 1,
                                !.frames[Depth].target = "WRITER",
                                !.frames[Depth].todo = @ - 1]
  /\ ConsoleOnly

\* The code on top of the stack makes its next step in _print; at lock() it
\* makes none while the lock is taken.
PrintStep ==
  /\ Depth >= 1 /\ Top.at >= 1
  /\ PRINT_STEPS[Top.at] = "lock" => console.lock[Top.target] = 0
  /\ console' = print_step(console)
  /\ ConsoleOnly

\* notify_end_of_interrupt and the return from the handler, which sets the
\* interrupt flag as it was when the interrupt was delivered.
HandlerReturn ==
  /\ Depth > 1 /\ Top.ctx \in Handlers /\ Top.at = 0 /\ Top.todo = 0
  /\ console' = [console EXCEPT !.frames = SubSeq(@, 1, Depth - 1),
                                !.ifl = TRUE]
  /\ ConsoleOnly

NextConsole ==
  \/ PrintCall \/ EnableInterrupts \/ Interrupt
  \/ HandlerPrint \/ PrintStep \/ HandlerReturn

SpecConsole == InitConsole /\ [][NextConsole]_vars

\* The CPU goes on executing the code on top of the stack.
SpecConsoleFair ==
  /\ SpecConsole
  /\ WF_vars(PrintStep) /\ WF_vars(HandlerPrint) /\ WF_vars(HandlerReturn)

\* ------------------------------------------------------- Executor::run

\* ArrayQueue::new(100)
TASK_QUEUE_CAPACITY == 100

TaskIDs == 1..MaxTasks

\* The executor after spawn was called for every task, in the order of the
\* IDs, with interrupts enabled: run() is at the first pop.
ExecutorStarts ==
  [ExecutorNotRunning EXCEPT !.pc = "pop", !.ifl = TRUE,
                             !.queue = [i \in TaskIDs |-> i],
                             !.tasks = TaskIDs]

\* One step of run_ready_tasks: task_queue.pop(), tasks.get_mut(&task_id),
\* task.poll(&mut context), which is Ready or not. When pop fails the loop
\* ends and run() calls sleep_if_idle.
run_ready_tasks(e, ready) ==
  CASE e.pc = "pop" ->
         IF e.queue = <<>> THEN [e EXCEPT !.pc = "disable"]
         ELSE [e EXCEPT !.pc = "get", !.cur = Head(e.queue),
                        !.queue = Tail(e.queue)]
    [] e.pc = "get" ->
         [e EXCEPT !.pc = IF e.cur \in e.tasks THEN "poll" ELSE "pop"]
    [] e.pc = "poll" ->
         [e EXCEPT !.pc = "pop",
                   !.tasks = IF ready THEN e.tasks \ {e.cur} ELSE e.tasks]

\* sleep_if_idle with the queue looked at while interrupts are enabled.
sleep_if_idle_enabled(e) ==
  CASE e.pc = "disable" -> [e EXCEPT !.pc = "is_empty"]
    [] e.pc = "is_empty" ->
         [e EXCEPT !.pc = IF e.queue = <<>> THEN "enable_and_hlt" ELSE "enable"]
    [] e.pc = "enable_and_hlt" -> [e EXCEPT !.ifl = TRUE, !.pc = "hlt"]
    [] e.pc = "enable" -> [e EXCEPT !.ifl = TRUE, !.pc = "pop"]

\* One step of sleep_if_idle: interrupts::disable(), task_queue.is_empty(),
\* then enable_and_hlt(), which sets the interrupt flag and halts the CPU
\* with no interrupt in between, or interrupts::enable(), after which run()
\* calls run_ready_tasks.
sleep_if_idle(e) ==
  CASE e.pc = "disable" -> [e EXCEPT !.ifl = FALSE, !.pc = "is_empty"]
    [] e.pc = "is_empty" ->
         [e EXCEPT !.pc = IF e.queue = <<>> THEN "enable_and_hlt" ELSE "enable"]
    [] e.pc = "enable_and_hlt" -> [e EXCEPT !.ifl = TRUE, !.pc = "hlt"]
    [] e.pc = "enable" -> [e EXCEPT !.ifl = TRUE, !.pc = "pop"]

\* self.task_queue.push(self.task_id).expect("task queue full")
wake_task(e, task_id) ==
  IF Len(e.queue) < TASK_QUEUE_CAPACITY
  THEN [e EXCEPT !.queue = Append(@, task_id)]
  ELSE [e EXCEPT !.panic = TRUE]

ExecutorOnly ==
  UNCHANGED <<strategy, inited, locked, panicked, alloc_state, written, live,
              last, contexts_state, heap, boot, vga, eval, console, scancodes>>

InitExecutor ==
  /\ InitAllocator
  /\ boot = BootNotStarted /\ vga = VgaNotUsed /\ eval = NoEval
  /\ console = ConsoleNotUsed /\ scancodes = ScancodesNotUsed
  /\ executor = ExecutorStarts

RunReadyTasks ==
  /\ executor.pc \in {"pop", "get", "poll"} /\ ~executor.panic
  /\ \E ready \in IF executor.pc = "poll" THEN BOOLEAN ELSE {FALSE} :
       executor' = run_ready_tasks(executor, ready)
  /\ ExecutorOnly

SleepIfIdle ==
  /\ executor.pc \in {"disable", "is_empty", "enable_and_hlt", "enable"}
  /\ executor' = sleep_if_idle(executor)
  /\ ExecutorOnly

\* An interrupt is delivered and its handler returns: it wakes a task
\* through its waker (task_id > 0) or wakes none. A halted CPU goes on
\* behind the hlt: sleep_if_idle returns and run() calls run_ready_tasks.
WakeInterrupt ==
  /\ executor.pc # "off" /\ executor.ifl /\ ~executor.panic
  /\ executor.wakes < MaxWakes
  /\ \E task_id \in TaskIDs \cup {0} :
       \E e \in {IF task_id = 0 THEN executor ELSE wake_task(executor, task_id)} :
         executor' = [e EXCEPT !.wakes = @ + 1,
                               !.from_hlt = (executor.pc = "hlt"),
                               !.pc = IF @ = "hlt" THEN "pop" ELSE @]
  /\ ExecutorOnly

NextExecutor == RunReadyTasks \/ SleepIfIdle \/ WakeInterrupt

SpecExecutor == InitExecutor /\ [][NextExecutor]_vars

\* A CPU that is not halted executes the next step of run().
SpecExecutorFair ==
  SpecExecutor /\ WF_vars(RunReadyTasks) /\ WF_vars(SleepIfIdle)

\* ------------------------------------------- the scancode queue and stream

SCANCODE_QUEUE_CAPACITY == ScancodeQueueCap

\* A scancode in the queue: the number of the add_scancode that pushed it,
\* and whether it was in the queue when the waker was registered by the
\* poll_next in progress.
Scancode(code) == [code |-> code, old |-> FALSE]

\* poll_next that returns Pending after registering the waker, without the
\* second pop.
poll_next_single_pop(s) ==
  CASE s.pc = "pop" ->
         IF s.queue # <<>>
         THEN [s EXCEPT !.queue = Tail(@), !.result = "Ready", !.pc = "return"]
         ELSE [s EXCEPT !.pc = "register"]
    [] s.pc = "register" ->
         [s EXCEPT !.waker = TRUE, !.result = "Pending", !.pc = "return",
                   !.queue = [i \in DOMAIN @ |-> [@[i] EXCEPT !.old = TRUE]]]
    [] s.pc = "return" ->
         [s EXCEPT !.result = "none",
                   !.queue = [i \in DOMAIN @ |-> [@[i] EXCEPT !.old = FALSE]],
                   !.pc = IF s.result = "Ready" THEN "pop" ELSE "idle"]

\* One step of poll_next: queue.pop(); WAKER.register(&context.waker());
\* queue.pop() again, with WAKER.take() when it has a scancode; the return.
\* After Ready the loop of print_keypresses calls next() again, after
\* Pending the task is left until it is woken.
poll_next(s) ==
  CASE s.pc = "pop" ->
         IF s.queue # <<>>
         THEN [s EXCEPT !.queue = Tail(@), !.result = "Ready", !.pc = "return"]
         ELSE [s EXCEPT !.pc = "register"]
    [] s.pc = "register" ->
         [s EXCEPT !.waker = TRUE, !.pc = "pop_again",
                   !.queue = [i \in DOMAIN @ |-> [@[i] EXCEPT !.old = TRUE]]]
    [] s.pc = "pop_again" ->
         IF s.queue # <<>>
         THEN [s EXCEPT !.queue = Tail(@), !.pc = "take"]
         ELSE [s EXCEPT !.result = "Pending", !.pc = "return"]
    [] s.pc = "take" ->
         [s EXCEPT !.waker = FALSE, !.result = "Ready", !.pc = "return"]
    [] s.pc = "return" ->
         [s EXCEPT !.result = "none",
                   !.queue = [i \in DOMAIN @ |-> [@[i] EXCEPT !.old = FALSE]],
                   !.pc = IF s.result = "Ready" THEN "pop" ELSE "idle"]

\* add_scancode: without a queue, or with a full one, it prints a warning;
\* after a push WAKER.wake() takes the registered waker, if there is one,
\* and wakes the task.
add_scancode(s) ==
  IF ~s.inited \/ Len(s.queue) >= SCANCODE_QUEUE_CAPACITY
  THEN [s EXCEPT !.pushes = @ + 1]
  ELSE [s EXCEPT !.pushes = @ + 1,
                 !.queue = Append(@, Scancode(s.pushes + 1)),
                 !.waker = FALSE,
                 !.runnable = @ \/ s.waker]

ScancodesOnly ==
  UNCHANGED <<strategy, inited, locked, panicked, alloc_state, written, live,
              last, contexts_state, heap, boot, vga, eval, console, executor>>

InitScancodes ==
  /\ InitAllocator
  /\ boot = BootNotStarted /\ vga = VgaNotUsed /\ eval = NoEval
  /\ console = ConsoleNotUsed /\ executor = ExecutorNotRunning
  /\ scancodes = ScancodesNotUsed

\* ScancodeStream::new() in print_keypresses, at the first poll of the task.
ScancodeStreamNew ==
  /\ scancodes.pc = "off"
  /\ scancodes' = [scancodes EXCEPT !.inited = TRUE, !.pc = "pop"]
  /\ ScancodesOnly

\* The executor polls the task it finds in its queue.
PollTask ==
  /\ scancodes.pc = "idle" /\ scancodes.runnable
  /\ scancodes' = [scancodes EXCEPT !.runnable = FALSE, !.pc = "pop"]
  /\ ScancodesOnly

PollNext ==
  /\ scancodes.pc \in {"pop", "register", "pop_again", "take", "return"}
  /\ scancodes' = poll_next(scancodes)
  /\ ScancodesOnly

\* The keyboard interrupt handler calls add_scancode, between any two steps
\* of the task.
AddScancode ==
  /\ scancodes.pushes < MaxScancodes
  /\ scancodes' = add_scancode(scancodes)
  /\ ScancodesOnly

NextScancodes == ScancodeStreamNew \/ PollTask \/ PollNext \/ AddScancode

SpecScancodes == InitScancodes /\ [][NextScancodes]_vars

\* ------------------------------------------- calls from several contexts

\* A context runs unless an interrupt handler is running on top of it.
Runnable(c) == \A i \in Contexts : Interrupted(i) = c => pc[i] = "idle"

InCall == { c \in Contexts : pc[c] # "idle" }
AllocsInProgress == { c \in InCall : call[c].op = "alloc" }

\* The layouts requested when several contexts call.
ConcLayouts == { Layout(8, 8), Layout(HugeSize, 8) }

\* A context (a task, or an interrupt handler that has just been entered)
\* calls alloc: it is about to call self.lock().
CallAlloc ==
  /\ ~panicked
  /\ Cardinality(live) + Cardinality(AllocsInProgress) < MaxLive
  /\ \E c \in Contexts, layout \in ConcLayouts :
       /\ pc[c] = "idle" /\ Runnable(c)
       /\ pc' = [pc EXCEPT ![c] = "lock"]
       /\ call' = [call EXCEPT ![c] = CallInProgress("alloc", layout, NULL, NULL)]
  /\ UNCHANGED <<heap, strategy, inited, locked, panicked, alloc_state, written,
                 live, last, owner, kernel_state>>

\* A context calls dealloc with a block it was granted and its layout.
CallDealloc ==
  /\ ~panicked
  /\ \E c \in Contexts, a \in live :
       /\ pc[c] = "idle" /\ Runnable(c)
       /\ pc' = [pc EXCEPT ![c] = "lock"]
       /\ call' = [call EXCEPT ![c] =
                     CallInProgress("dealloc", a.layout, a.addr, NULL)]
       /\ live' = live \ {a}
  /\ UNCHANGED <<heap, strategy, inited, locked, panicked, alloc_state, written,
                 last, owner, kernel_state>>

\* self.lock() returns: the context spins at "lock" until then.
Lock ==
  /\ ~panicked
  /\ \E c \in Contexts :
       /\ pc[c] = "lock" /\ Runnable(c)
       /\ LockFree(c)
       /\ locked' = TRUE
       /\ owner' = c
       /\ pc' = [pc EXCEPT ![c] = "body"]
  /\ UNCHANGED <<heap, strategy, inited, panicked, alloc_state, written, live,
                 last, call, kernel_state>>

\* The effect of an Outcome o of context c's body on the state.
BodyStep(c, o, b, fs, nextpc, region) ==
  /\ bump' = b
  /\ head' = fs.head
  /\ list_heads' = fs.list_heads
  /\ mem' = fs.mem
  /\ panicked' = o.panic
  /\ call' = [call EXCEPT ![c].ptr = o.ptr, ![c].region = region]
  /\ pc' = [pc EXCEPT ![c] = IF o.panic THEN "panic" ELSE nextpc]

BodyDone(c, o, b, fs, nextpc) == BodyStep(c, o, b, fs, nextpc, NULL)

\* The body of alloc or dealloc, between lock() and the return; for the
\* linked-list alloc, up to the return of find_region.
Body ==
  /\ ~panicked
  /\ \E c \in Contexts, ovf \in OverflowModes :
       /\ pc[c] = "body" /\ Runnable(c)
       /\ LET fs == FSState(list_heads, head, mem, {})
               ll == LLState(head, mem, {})
               op == call[c].op
               layout == call[c].layout
           IN
           CASE strategy = "bump" /\ op = "alloc" ->
                  \E o \in {Bump_alloc(bump, layout, ovf)} :
                    BodyDone(c, o, o.st, fs, "unlock")
             [] strategy = "bump" /\ op = "dealloc" ->
                  \E o \in {Bump_dealloc(bump, ovf)} :
                    BodyDone(c, o, o.st, fs, "unlock")
             [] strategy = "linked" /\ op = "alloc" ->
                  IF size_align_fails(layout)
                  THEN BodyDone(c, Outcome(ll, NULL, TRUE), bump, fs, "unlock")
                  ELSE
                    \E f \in {find_region(ll, size_align_size(layout),
                                           size_align_align(layout), ovf)} :
                      BodyStep(c, Outcome(f.ll, f.alloc_start, f.panic),
                               bump, WithFallback(fs, f.ll),
                               IF f.region = NULL THEN "unlock" ELSE "excess",
                               f.region)
             [] strategy = "linked" /\ op = "dealloc" ->
                  \E o \in {Linked_dealloc(ll, call[c].ptr, layout, ovf)} :
                    BodyDone(c, [o EXCEPT !.ptr = call[c].ptr], bump,
                             WithFallback(fs, o.st), "unlock")
             [] strategy = "fixed" /\ op = "alloc" ->
                  \E o \in {Fixed_alloc(fs, layout, ovf)} :
                    BodyDone(c, o, bump, o.st, "unlock")
             [] strategy = "fixed" /\ op = "dealloc" ->
                  \E o \in {Fixed_dealloc(fs, call[c].ptr, layout, ovf)} :
                    BodyDone(c, [o EXCEPT !.ptr = call[c].ptr], bump, o.st,
                             "unlock")
  /\ UNCHANGED <<heap, strategy, inited, locked, written, live, last, owner,
                 kernel_state>>

\* The rest of the linked-list alloc: the excess of the region found goes
\* back to the list.
Excess ==
  /\ ~panicked
  /\ \E c \in Contexts, ovf \in OverflowModes :
       /\ pc[c] = "excess" /\ Runnable(c)
       /\ \E o \in {Linked_alloc_excess(LLState(head, mem, {}),
                                          call[c].region, call[c].ptr,
                                          size_align_size(call[c].layout),
                                          ovf)} :
            BodyDone(c, o, bump,
                     WithFallback(FSState(list_heads, head, mem, {}), o.st),
                     "unlock")
  /\ UNCHANGED <<heap, strategy, inited, locked, written, live, last, owner,
                 kernel_state>>

\* alloc or dealloc returns: the guard goes out of scope, the caller gets
\* the pointer and stores its datum in the block.
Return ==
  /\ ~panicked
  /\ \E c \in Contexts :
       /\ pc[c] = "unlock" /\ Runnable(c)
       /\ IF GuardDropped(call[c].op, call[c].ptr)
          THEN locked' = FALSE /\ owner' = "none"
          ELSE UNCHANGED <<locked, owner>>
       /\ pc' = [pc EXCEPT ![c] = "idle"]
       /\ call' = [call EXCEPT ![c] = NoCall]
       /\ last' = Call(call[c].op, call[c].layout, call[c].ptr)
       /\ IF call[c].op = "alloc" /\ call[c].ptr # NULL
          THEN /\ live' = live \cup {Allocation(call[c].ptr, call[c].layout)}
               /\ mem' = UserStore(mem, call[c].ptr)
          ELSE UNCHANGED <<live, mem>>
  /\ UNCHANGED <<heap, strategy, inited, panicked, bump, head, list_heads,
                 written, kernel_state>>

\* init runs before any other call is in progress.
InitHeap ==
  /\ InCall = {}
  /\ BumpInit \/ LinkedInit \/ FixedInit

NextConc ==
  InitHeap \/ CallAlloc \/ CallDealloc \/ Lock \/ Body \/ Excess \/ Return

SpecConc == Init /\ [][NextConc]_vars

\* ------------------------------------------------ what the lists hold

\* The blocks on the free list of class index, from the head on.
RECURSIVE ClassListFrom(_, _, _)
ClassListFrom(m, node, fuel) ==
  IF node = NULL \/ fuel = 0 THEN <<>>
  ELSE <<node>> \o ClassListFrom(m, MemRead(m, node), fuel - 1)

ClassList(index) ==
  ClassListFrom(mem, list_heads[index], Cardinality(DOMAIN mem) + 1)

\* The free regions <<address, size>> of the linked list, from the head on.
RECURSIVE FreeListFrom(_, _, _)
FreeListFrom(m, node, fuel) ==
  IF node = NULL \/ fuel = 0 THEN <<>>
  ELSE <<<<node, NodeSize(m, node)>>>>
         \o FreeListFrom(m, NodeNext(m, node), fuel - 1)

FreeList == FreeListFrom(mem, head, Cardinality(DOMAIN mem) + 1)

Range(seq) == { seq[i] : i \in DOMAIN seq }

\* [a, a + n) and [b, b + k) have no byte in common.
Disjoint(a, n, b, k) == a + n <= b \/ b + k <= a

EndOf(a) == a.addr + a.layout.size

\* The allocation granted by the last call, if it was a successful alloc.
LastGranted ==
  IF last.op = "alloc" /\ last.ptr # NULL
  THEN {Allocation(last.ptr, last.layout)} ELSE {}

\* The last call was an alloc served from a class free list: the only word
\* it wrote is the link of the block it returns.
ServedFromClassList ==
  /\ strategy = "fixed" /\ last.op = "alloc" /\ last.ptr # NULL
  /\ written = {last.ptr}

\* ----------------------------------------------------------------- claims

\* C1: size-classed allocator: no two live allocations overlap, and no live
\* allocation overlaps a block that is on a class free list.
C1_LiveDisjoint ==
  strategy = "fixed" =>
    /\ \A a, b \in live :
         a # b => Disjoint(a.addr, a.layout.size, b.addr, b.layout.size)
    /\ \A a \in live, i \in BlockIndexes :
         \A p \in Range(ClassList(i)) :
           Disjoint(a.addr, a.layout.size, p, BlockSize(i))

\* C1 witness: an alloc was served from a class list while another block
\* is live and a class list still holds a block.
C1_Witness ==
  /\ ServedFromClassList
  /\ Cardinality(live) = 2
  /\ \E i \in BlockIndexes : list_heads[i] # NULL

\* C2: every address granted by alloc(size, align) is a multiple of align,
\* in the three strategies.
C2_Aligned ==
  \A a \in live \cup LastGranted : a.addr % a.layout.align = 0

\* C2 witness: a block of alignment 32 that does not start the heap has
\* been obtained from the fallback, freed, and served again from its class
\* list.
C2_Witness ==
  /\ ServedFromClassList
  /\ last.layout.align = 32
  /\ last.ptr # heap.start

\* C3: a live allocation keeps the datum stored in it, and no call writes a
\* word of a live allocation other than the one it has just granted.
C3_LiveIntact ==
  /\ \A a \in live : MemRead(mem, a.addr - (a.addr % 8)) = USER_DATA
  /\ \A a \in live \ LastGranted :
       \A w \in written : Disjoint(w, 8, a.addr, a.layout.size)

\* C3 witness: a block was freed and its link node written while a block
\* close to it is live and holds its datum.
C3_Witness ==
  /\ strategy = "fixed" /\ last.op = "dealloc" /\ written = {last.ptr}
  /\ \E a \in live :
       /\ a.addr - last.ptr \in {-16, 16}
       /\ MemRead(mem, a.addr) = USER_DATA

\* C4: an alloc that follows the dealloc of a block of the same size class
\* gets that block from the class list: it does not fail and the fallback
\* allocator's free list is as before.
C4_RoundTrip ==
  [][ ( /\ strategy = "fixed"
        /\ last.op = "dealloc" /\ last'.op = "alloc"
        /\ list_index(last.layout) # -1
        /\ list_index(last'.layout) = list_index(last.layout) )
      => ( /\ last'.ptr = last.ptr
           /\ last'.ptr # NULL
           /\ head' = head
           /\ FreeList' = FreeList ) ]_vars

\* C4 witness: the only live block was served from its class list.
C4_Witness ==
  /\ ServedFromClassList
  /\ live = {Allocation(last.ptr, last.layout)}
  /\ list_index(last.layout) = 0

\* C5: an alloc of more bytes than the heap has returns NULL and leaves the
\* allocator and its memory as they were.
C5_Exhaustion ==
  [][ (last'.op = "alloc" /\ last'.layout.size > HeapSizeOf(strategy))
      => ( /\ last'.ptr = NULL
           /\ ~panicked'
           /\ alloc_state' = alloc_state
           /\ live' = live ) ]_vars

\* C5 witness: an oversized request has failed on an initialised heap with
\* a live allocation and free memory left.
C5_Witness ==
  /\ inited /\ last.op = "alloc" /\ last.ptr = NULL
  /\ last.layout.size > HeapSizeOf(strategy)
  /\ live # {}
  /\ strategy = "fixed" => head # NULL /\ list_heads[0] # NULL
  /\ strategy = "linked" => head # NULL
  /\ strategy = "bump" => bump.next < bump.heap_end

\* The positions between the return of lock() and the return of the call.
Critical == {"body", "excess", "unlock"}

\* C6: at most one call is inside the allocator at a time, it holds the
\* lock, and the allocator's state changes only in steps of the context
\* that holds the lock, while every other context stays where it is.
C6_Serialized ==
  /\ [](\A c \in Contexts :
          pc[c] \in Critical =>
            /\ locked /\ owner = c
            /\ \A d \in Contexts \ {c} : pc[d] \notin Critical)
  /\ [][ (alloc_state' # alloc_state /\ inited' = inited)
          => ( /\ locked /\ owner \in Contexts
               /\ pc[owner] \in Critical
               /\ \A d \in Contexts \ {owner} : pc'[d] = pc[d] ) ]_vars

\* C6 witness: a linked-list alloc has unlinked a region and not yet put
\* its excess back, while another context is calling lock().
C6_Witness ==
  \E c, d \in Contexts : c # d /\ pc[c] = "excess" /\ pc[d] = "lock"

\* C7: whenever no call is between lock() and its return the lock is free,
\* and a context between the two is the one owner of the lock.
C7_LockReleased ==
  /\ (\A c \in Contexts : pc[c] \in {"idle", "lock"})
       => (~locked /\ owner = "none")
  /\ \A c \in Contexts : pc[c] \in Critical => (locked /\ owner = c)

\* C7 witness: a bump alloc has returned NULL on the overflow of
\* alloc_start + size, the lock is free and another call is about to lock.
C7_Witness ==
  /\ strategy = "bump" /\ inited
  /\ last = Call("alloc", Layout(HugeSize, 8), NULL)
  /\ checked_add(align_up(bump.next, 8), HugeSize) = -1
  /\ ~locked
  /\ \E c \in Contexts : pc[c] = "lock"

\* An interrupt handler spins in lock() while the code it interrupted
\* holds the lock.
SpinsOnInterrupted(i) ==
  /\ Interrupted(i) # "none"
  /\ pc[i] = "lock"
  /\ locked /\ owner = Interrupted(i)

\* C8: once an interrupt handler spins on the lock held by the code it
\* interrupted, it spins for ever and the interrupted call never goes on.
C8_NonReentrant ==
  [][ \A i \in Contexts :
        SpinsOnInterrupted(i)
          => ( /\ SpinsOnInterrupted(i)'
               /\ pc'[Interrupted(i)] = pc[Interrupted(i)] ) ]_vars

\* C8 witness: the handler spins while the interrupted alloc is between
\* find_region and add_free_region.
C8_Witness ==
  SpinsOnInterrupted("irq1") /\ pc["task1"] = "excess"

\* C9: every granted block and every word the allocator writes lies in the
\* region handed to init; nothing is written before init.
C9_HeapBounds ==
  /\ \A a \in live :
       heap.start <= a.addr /\ EndOf(a) <= heap.start + heap.size
  /\ \A w \in written :
       heap.start <= w /\ w + 8 <= heap.start + heap.size
  /\ ~inited => (written = {} /\ DOMAIN mem = {})

\* C9 witness: the linked-list allocator has granted the last bytes of the
\* heap.
C9_Witness ==
  /\ strategy = "linked" /\ last.op = "alloc" /\ last.ptr # NULL
  /\ last.ptr + size_align_size(last.layout) = heap.start + heap.size
  /\ last.ptr # heap.start
  /\ written # {}

\* C10: with no allocation live the bump cursor is at heap_start and the
\* next block is granted there; next goes down only in the dealloc that
\* frees the last live allocation.
C10_Reclaim ==
  /\ []((strategy = "bump" /\ live = {})
          => (bump.next = bump.heap_start /\ bump.allocations = 0))
  /\ [][ strategy = "bump" =>
          /\ (bump'.next < bump.next)
               => (last'.op = "dealloc" /\ live' = {})
          /\ (live # live' /\ live' # {} /\ last'.op = "dealloc")
               => bump'.next = bump.next
          /\ (live = {} /\ live' # {})
               => last'.ptr = align_up(bump.heap_start, last'.layout.align)
        ]_vars

\* C10 witness: every allocation has been freed, the one at heap_start
\* last, after blocks had been granted behind it.
C10_Witness ==
  /\ strategy = "bump" /\ inited
  /\ last.op = "dealloc" /\ last.ptr = bump.heap_start
  /\ live = {}
  /\ Cardinality(DOMAIN mem) >= 2
  /\ bump.next = bump.heap_start

\* The last two calls freed a block and then allocated with a layout whose
\* alignment the freed address satisfies.
FreedThenAllocated ==
  /\ strategy = "linked"
  /\ last.op = "dealloc" /\ last'.op = "alloc"
  /\ last.ptr % last'.layout.align = 0

\* C11: free-list allocator: an alloc that follows the dealloc of a block
\* returns that block's address when its normalized size equals the freed
\* block's or is smaller by at least the size of a list node.
C11_Reuse ==
  [][ ( /\ FreedThenAllocated
        /\ LET excess == size_align_size(last.layout)
                            - size_align_size(last'.layout)
           IN  excess = 0 \/ excess >= NODE_SIZE )
      => last'.ptr = last.ptr ]_vars

\* C11 as stated: any requested size up to the freed block's gets the freed
\* address.
C11_ReuseAnySmaller ==
  [][ (FreedThenAllocated /\ last'.layout.size <= last.layout.size)
      => last'.ptr = last.ptr ]_vars

\* C11 witness: a smaller block was cut from the freed first block of the
\* heap: the alloc wrote the node of the 16 bytes left behind it.
C11_Witness ==
  /\ strategy = "linked" /\ last.op = "alloc"
  /\ last.ptr = heap.start
  /\ size_align_size(last.layout) = NODE_SIZE
  /\ last.ptr + NODE_SIZE \in written
  /\ Len(FreeList) = 2
  /\ FreeList[1] = <<last.ptr + NODE_SIZE, NODE_SIZE>>

\* The bytes a live allocation holds in the free-list allocator: its size
\* after size_align.
NormalizedSize(a) == size_align_size(a.layout)

\* C12: free-list allocator: the regions of the free nodes are pairwise
\* disjoint, none overlaps the normalized region of a live allocation, and
\* no two live allocations overlap.
C12_FreeRegions ==
  strategy = "linked" =>
    /\ \A i, j \in DOMAIN FreeList :
         i # j => Disjoint(FreeList[i][1], FreeList[i][2],
                           FreeList[j][1], FreeList[j][2])
    /\ \A i \in DOMAIN FreeList :
         /\ FreeList[i][2] >= NODE_SIZE
         /\ \A a \in live :
              Disjoint(FreeList[i][1], FreeList[i][2],
                       a.addr, NormalizedSize(a))
    /\ \A a, b \in live :
         a # b => Disjoint(a.addr, NormalizedSize(a), b.addr, NormalizedSize(b))

\* C12 witness: a live allocation lies between two free regions, the first
\* of which was freed by the last call.
C12_Witness ==
  /\ strategy = "linked" /\ last.op = "dealloc"
  /\ Len(FreeList) = 2
  /\ FreeList[1][1] = last.ptr
  /\ \E a \in live :
       /\ FreeList[1][1] + FreeList[1][2] = a.addr
       /\ a.addr + NormalizedSize(a) = FreeList[2][1]

\* The pages that hold at least one byte of [start, start + size).
PagesOverlapping(start, size) ==
  { p \in 0..(USIZE_LIMIT \div PAGE_SIZE) :
      p * PAGE_SIZE < start + size /\ (p + 1) * PAGE_SIZE > start }

\* C13: when a frame allocation or a mapping has failed, init_heap has
\* returned the error, the allocator is as it was constructed, every alloc
\* fails, and no page is mapped and no frame allocated afterwards.
C13_BootFailure ==
  /\ [](boot.error # "none" =>
          /\ boot.pc = "err"
          /\ ~inited /\ boot.inits = 0
          /\ bump = BumpAllocator_new
          /\ head = LinkedListAllocator_new
          /\ list_heads = FixedSizeBlockAllocator_new
          /\ mem = <<>>
          /\ live = {}
          /\ last.op = "alloc" => last.ptr = NULL)
  /\ [][ boot.error # "none" => boot' = boot ]_vars

\* C13 witness: the first page was mapped, the frame allocation for the
\* next one failed, and an alloc made afterwards returned NULL.
C13_Witness ==
  /\ boot.error = "FrameAllocationFailed"
  /\ Page_containing_address(HEAP_START) \in DOMAIN boot.mapped
  /\ last.op = "alloc" /\ last.ptr = NULL

\* C14: init is called once, with (HEAP_START, HEAP_SIZE), and only when
\* every page that holds a byte of the heap is mapped present and writable;
\* every word written lies in a mapped page; the kernel's 100 KiB heap is
\* 25 pages.
C14_BootOrder ==
  /\ (boot.pc \in {"init", "ok"} \/ inited)
       => \A p \in PagesOverlapping(HEAP_START, BOOT_HEAP_SIZE) :
            p \in DOMAIN boot.mapped /\ boot.mapped[p] = HeapPageFlags
  /\ inited => ( /\ heap = HeapRegion(HEAP_START, BOOT_HEAP_SIZE)
                 /\ boot.pc = "ok" /\ boot.inits = 1 )
  /\ boot.inits <= 1
  /\ \A w \in DOMAIN mem : Page_containing_address(w) \in DOMAIN boot.mapped
  /\ Cardinality(page_range(HEAP_START, KERNEL_HEAP_SIZE)) = 25

\* C14 witness: init_heap has returned Ok and a block in the second page
\* of the heap has been written.
C14_Witness ==
  /\ boot.pc = "ok" /\ inited
  /\ Cardinality(DOMAIN boot.mapped) = BootHeapPages
  /\ \E w \in DOMAIN mem :
       Page_containing_address(w) = Page_containing_address(HEAP_START) + 1

\* C15: after a newline, a string s of at most BUFFER_WIDTH printable
\* characters and a newline have been written, row BUFFER_HEIGHT - 2 holds
\* s from column 0 on.
C15_LinePlacement ==
  ( /\ Len(vga.strings) = 3
    /\ vga.strings[1] = <<NEWLINE>> /\ vga.strings[3] = <<NEWLINE>>
    /\ Len(vga.strings[2]) <= BUFFER_WIDTH
    /\ \A i \in DOMAIN vga.strings[2] : Printable(vga.strings[2][i]) )
  => \A i \in DOMAIN vga.strings[2] :
       vga.writer.chars[BUFFER_HEIGHT - 2][i - 1] = vga.strings[2][i]

\* C15 witness: a string that fills a row was written between two
\* newlines, over a screen that held other text.
C15_Witness ==
  /\ Len(vga.strings) = 3
  /\ vga.strings[1] = <<NEWLINE>> /\ vga.strings[3] = <<NEWLINE>>
  /\ Len(vga.strings[2]) = BUFFER_WIDTH
  /\ \A i \in DOMAIN vga.strings[2] : Printable(vga.strings[2][i])
  /\ vga.writer.chars[0][0] = UNPRINTABLE
  /\ vga.writer.column_position = 0

\* C16: list_index gives the index of the smallest of the classes 8, 16,
\* ..., 2048 that is at least max(size, align), and no class exactly when
\* max(size, align) exceeds 2048.
C16_ClassSelection ==
  (eval.f = "list_index" /\ eval.done) =>
    LET classes == <<8, 16, 32, 64, 128, 256, 512, 1024, 2048>>
        need == IF eval.in.size >= eval.in.align THEN eval.in.size
                ELSE eval.in.align
    IN  IF need > 2048 THEN eval.out = -1
        ELSE /\ eval.out \in 0..8
             /\ classes[eval.out + 1] >= need
             /\ \A i \in 1..9 :
                  classes[i] >= need => classes[eval.out + 1] <= classes[i]

\* C16 witness: the alignment, larger than the size, has selected the
\* class.
C16_Witness ==
  /\ eval.f = "list_index" /\ eval.done
  /\ eval.in = Layout(24, 256)
  /\ eval.out = 5

\* The step is an alloc of the size-classed allocator.
FixedAllocStep == strategy = "fixed" /\ last'.op = "alloc" /\ last' # last

\* This step's result and state are those of one request of layout to the
\* fallback allocator, and the class lists are as before.
ServedByFallback(layout) ==
  /\ list_heads' = list_heads
  /\ \E ovf \in OverflowModes :
       \E o \in {Heap_allocate_first_fit(LLState(head, mem, {}), layout, ovf)} :
         /\ last'.ptr = o.ptr
         /\ head' = o.st.head
         /\ mem' = UserStore(o.st.mem, o.ptr)

\* C17: an alloc of the size-classed allocator (1) pops the head of the
\* class list when the class has one, leaving the fallback alone, (2) makes
\* one request of (class size, class size) to the fallback when the class
\* list is empty, (3) passes the layout to the fallback when no class fits;
\* the fallback's result is returned as it is.
C17_AllocPaths ==
  [][ FixedAllocStep =>
      LET index == list_index(last'.layout)
      IN  IF index # -1 /\ list_heads[index] # NULL
          THEN /\ last'.ptr = list_heads[index]
               /\ list_heads' = [list_heads EXCEPT
                                   ![index] = MemRead(mem, list_heads[index])]
               /\ head' = head
               /\ FreeList' = FreeList
          ELSE IF index # -1
          THEN ServedByFallback(Layout(BlockSize(index), BlockSize(index)))
          ELSE ServedByFallback(last'.layout) ]_vars

\* C17 witness: a class list was empty and the fallback had no block for
\* it: the alloc failed although another class list holds a block.
C17_Witness ==
  /\ strategy = "fixed" /\ inited
  /\ last.op = "alloc" /\ last.ptr = NULL
  /\ list_index(last.layout) # -1
  /\ list_heads[list_index(last.layout)] = NULL
  /\ \E j \in BlockIndexes : list_heads[j] # NULL

\* The step is a dealloc of the size-classed allocator.
FixedDeallocStep ==
  strategy = "fixed" /\ last'.op = "dealloc" /\ live' # live

\* C18: a dealloc of the size-classed allocator makes the block the head
\* of its class list, with the previous head as its successor, and leaves
\* the other class lists and the fallback as they were; with no class, it
\* passes the block and the layout to the fallback's dealloc and leaves the
\* class lists as they were.
C18_DeallocFrame ==
  [][ FixedDeallocStep =>
      \E index \in {list_index(last'.layout)} :
          IF index # -1
          THEN /\ list_heads' = [list_heads EXCEPT ![index] = last'.ptr]
               /\ mem' = MemWrite(mem, last'.ptr, list_heads[index])
               /\ ClassList(index)' = <<last'.ptr>> \o ClassList(index)
               /\ head' = head
               /\ FreeList' = FreeList
          ELSE /\ list_heads' = list_heads
               /\ \E ovf \in OverflowModes :
                    \E o \in {Heap_deallocate(LLState(head, mem, {}), last'.ptr,
                                              last'.layout, ovf)} :
                      head' = o.st.head /\ mem' = o.st.mem ]_vars

\* C18 witness: a block was freed onto a class list that held a block,
\* while the fallback has free memory.
C18_Witness ==
  /\ strategy = "fixed" /\ last.op = "dealloc"
  /\ list_index(last.layout) # -1
  /\ Len(ClassList(list_index(last.layout))) = 2
  /\ ClassList(list_index(last.layout))[1] = last.ptr
  /\ head # NULL

\* C19: the class lists are stacks. An alloc that selects a class whose
\* list holds blocks returns the block freed last and leaves the rest of the
\* list in order; a dealloc puts the block in front of the list; so an
\* alloc right after a dealloc of the same class, whatever its layout,
\* returns the block just freed.
C19_Lifo ==
  [][ \A c \in BlockIndexes :
        /\ (FixedAllocStep /\ list_index(last'.layout) = c
               /\ ClassList(c) # <<>>)
             => /\ last'.ptr = Head(ClassList(c))
                /\ ClassList(c)' = Tail(ClassList(c))
        /\ (FixedDeallocStep /\ list_index(last'.layout) = c)
             => ClassList(c)' = <<last'.ptr>> \o ClassList(c)
        /\ (FixedAllocStep /\ last.op = "dealloc"
               /\ list_index(last.layout) = c
               /\ list_index(last'.layout) = c)
             => last'.ptr = last.ptr ]_vars

\* C19 witness: of two blocks freed onto one class list, the one at the
\* higher address last, an alloc has returned the higher one and the list
\* holds the other.
C19_Witness ==
  /\ strategy = "fixed" /\ last.op = "alloc" /\ last.ptr # NULL
  /\ list_index(last.layout) # -1
  /\ Len(ClassList(list_index(last.layout))) = 1
  /\ ClassList(list_index(last.layout))[1] < last.ptr
  /\ Cardinality(live) = 1

\* The blocks of the size-classed allocator with the bytes each spans: a
\* block on a class list and a live block served for a class span the class
\* size, a live block served by the fallback spans its layout's size, a free
\* region of the fallback spans its size.
ListedBlocks ==
  UNION { { [addr |-> ClassList(c)[i], size |-> BlockSize(c),
             id |-> <<0, c, i>>] : i \in DOMAIN ClassList(c) } :
          c \in BlockIndexes }

LiveClassBlocks ==
  { [addr |-> a.addr, size |-> BlockSize(list_index(a.layout)),
     id |-> <<1, a.layout.size, a.layout.align>>] :
      a \in { x \in live : list_index(x.layout) # -1 } }

OtherBlocks ==
  { [addr |-> a.addr, size |-> a.layout.size,
     id |-> <<2, a.layout.size, a.layout.align>>] :
      a \in { x \in live : list_index(x.layout) = -1 } }
  \cup { [addr |-> FreeList[i][1], size |-> FreeList[i][2],
          id |-> <<3, i, 0>>] : i \in DOMAIN FreeList }

\* C20: every block on a class list and every live block served for a
\* class is at a multiple of the class size, and the class-size bytes from
\* it on overlap no other block.
C20_SelfAligned ==
  strategy = "fixed" =>
    \A b \in ListedBlocks \cup LiveClassBlocks :
      /\ b.addr % b.size = 0
      /\ \A o \in (ListedBlocks \cup LiveClassBlocks \cup OtherBlocks) \ {b} :
           Disjoint(b.addr, b.size, o.addr, o.size)

\* C20 witness: a live block of class 32 with alignment 8 lies 32 bytes
\* above a freed block of class 8: the fallback skipped to the next multiple
\* of 32.
C20_Witness ==
  /\ strategy = "fixed"
  /\ list_heads[0] # NULL
  /\ \E a \in live : a.layout = Layout(24, 8) /\ a.addr = list_heads[0] + 32

\* C21: for every layout that selects a class, the two assertions of the
\* size-classed dealloc hold and the dealloc of a block with that layout
\* does not panic: a list node fits in every class, the smallest included.
C21_AssertsHold ==
  (eval.f = "list_index" /\ eval.done /\ eval.out # -1) =>
    /\ LINK_SIZE <= BlockSize(eval.out)
    /\ LINK_ALIGN <= BlockSize(eval.out)
    /\ LINK_SIZE <= BlockSize(0)
    /\ \A ovf \in OverflowModes :
         ~Fixed_dealloc(FSState(list_heads, head, mem, {}), HEAP_START,
                        eval.in, ovf).panic

\* C21 witness: the smallest layout has selected the smallest class.
C21_Witness ==
  /\ eval.f = "list_index" /\ eval.done
  /\ eval.in = Layout(1, 1) /\ eval.out = 0

\* The blocks that belong to class c: those on its free list and the live
\* ones whose layout selects it.
ClassBlocksOf(c) ==
  Range(ClassList(c)) \cup { a.addr : a \in { x \in live : list_index(x.layout) = c } }

RECURSIVE SumOfSizes(_)
SumOfSizes(regions) ==
  IF regions = <<>> THEN 0 ELSE Head(regions)[2] + SumOfSizes(Tail(regions))

\* The bytes on the fallback's free list.
FallbackFreeBytes == SumOfSizes(FreeList)

\* C22: a block taken from the fallback for a class stays with that class:
\* over every step it remains live with that class or on that class's list,
\* never both, never with another class and never inside a free region of
\* the fallback; a call whose layout selects a class never increases the
\* fallback's free bytes, and such a dealloc leaves its free list alone.
C22_ClassKeepsMemory ==
  /\ [](strategy = "fixed" =>
          \A c \in BlockIndexes :
            /\ \A a \in live : list_index(a.layout) = c
                                 => a.addr \notin Range(ClassList(c))
            /\ \A d \in BlockIndexes \ {c} :
                 ClassBlocksOf(c) \cap ClassBlocksOf(d) = {}
            /\ \A p \in ClassBlocksOf(c), i \in DOMAIN FreeList :
                 Disjoint(p, BlockSize(c), FreeList[i][1], FreeList[i][2]))
  /\ [][ strategy = "fixed" =>
           /\ \A c \in BlockIndexes : ClassBlocksOf(c) \subseteq ClassBlocksOf(c)'
           /\ ((FixedAllocStep \/ FixedDeallocStep)
                 /\ list_index(last'.layout) # -1)
                => /\ FallbackFreeBytes' <= FallbackFreeBytes
                   /\ FixedDeallocStep => FreeList' = FreeList ]_vars

\* C22 witness: blocks of two classes were taken from the fallback, one is
\* live again after a round through its class list, the other is on its
\* list, and the fallback's free list is a single region from which both
\* are missing.
C22_Witness ==
  /\ strategy = "fixed"
  /\ last.op = "alloc" /\ last.ptr # NULL /\ list_index(last.layout) = 0
  /\ Range(ClassList(2)) # {}
  /\ ClassList(0) = <<>>
  /\ \E a \in live : a.addr = last.ptr /\ a.addr < ClassList(2)[1]
  /\ Len(FreeList) = 1
  /\ FallbackFreeBytes < heap.size - 32

\* The step is an alloc of the free-list allocator.
LinkedAllocStep ==
  strategy = "linked" /\ last'.op = "alloc" /\ last' # last

\* addr rounded up to the next multiple of align.
RoundUp(addr, align) == ((addr + align - 1) \div align) * align

\* The rule of alloc_from_region for the free node <<address, size>>.
Acceptable(node, size, align) ==
  /\ RoundUp(node[1], align) + size <= node[1] + node[2]
  /\ \/ node[1] + node[2] - (RoundUp(node[1], align) + size) = 0
     \/ node[1] + node[2] - (RoundUp(node[1], align) + size) >= NODE_SIZE

\* The positions in the free list of the nodes that the rule accepts.
AcceptablePositions(layout) ==
  { i \in DOMAIN FreeList :
      Acceptable(FreeList[i], size_align_size(layout), size_align_align(layout)) }

\* C23: an alloc of the free-list allocator returns the rounded-up start of
\* the first node, from the head on, for which the block ends inside the
\* node and leaves either nothing or at least a node; it returns the failure
\* value exactly when the list has no such node.
C23_FirstFit ==
  [][ LinkedAllocStep =>
        \E fits \in {AcceptablePositions(last'.layout)} :
          /\ ~panicked'
          /\ (last'.ptr = NULL) <=> (fits = {})
          /\ fits # {} =>
               \E i \in fits :
                 /\ \A j \in fits : i <= j
                 /\ last'.ptr = RoundUp(FreeList[i][1],
                                        size_align_align(last'.layout)) ]_vars

\* C23 witness: the alloc was served by a node further down the list: the
\* head node is larger than the request but would have left less than a node.
C23_Witness ==
  /\ strategy = "linked" /\ last.op = "alloc" /\ last.ptr # NULL
  /\ FreeList # <<>>
  /\ FreeList[1][1] < last.ptr
  /\ FreeList[1][2] > size_align_size(last.layout)
  /\ FreeList[1][2] - size_align_size(last.layout) < NODE_SIZE

\* seq without its i-th element.
Without(seq, i) == SubSeq(seq, 1, i - 1) \o SubSeq(seq, i + 1, Len(seq))

\* The position in the free list of the node a successful alloc took: the
\* first one the rule of alloc_from_region accepts.
AcceptedPosition(layout) ==
  CHOOSE i \in AcceptablePositions(layout) :
    \A j \in AcceptablePositions(layout) : i <= j

\* C24: a successful alloc of the free-list allocator removes the accepted
\* node and nothing else; a leftover greater than 0 becomes one new node at
\* the head, at the end of the block, of the leftover's size; the other
\* nodes keep address, size and order; with no leftover no node is added.
C24_AllocListEffect ==
  [][ (LinkedAllocStep /\ last'.ptr # NULL) =>
        \E i \in {AcceptedPosition(last'.layout)} :
          \E alloc_end \in {last'.ptr + size_align_size(last'.layout)} :
            \E leftover \in {FreeList[i][1] + FreeList[i][2] - alloc_end} :
              /\ leftover >= 0
              /\ FreeList' = IF leftover > 0
                             THEN <<<<alloc_end, leftover>>>> \o Without(FreeList, i)
                             ELSE Without(FreeList, i) ]_vars

\* C24 witness: an alloc took the front of the head node, the leftover is
\* the new head and two more nodes follow it.
C24_Witness ==
  /\ strategy = "linked" /\ last.op = "alloc" /\ last.ptr # NULL
  /\ Len(FreeList) = 3
  /\ FreeList[1][1] = last.ptr + size_align_size(last.layout)

\* The step is a dealloc of the free-list allocator.
LinkedDeallocStep ==
  strategy = "linked" /\ last'.op = "dealloc" /\ live' # live

\* Free nodes i and j lie side by side, i first.
Adjacent(i, j) == FreeList[i][1] + FreeList[i][2] = FreeList[j][1]

\* C25: a dealloc of the free-list allocator puts one node, of the block's
\* address and its normalized size, at the head of the list and leaves every
\* other node as it was, adjacent or not; an alloc is served from inside one
\* node, never from two nodes that lie side by side.
C25_NoCoalescing ==
  [][ /\ LinkedDeallocStep =>
           FreeList' = <<<<last'.ptr, size_align_size(last'.layout)>>>> \o FreeList
      /\ (LinkedAllocStep /\ last'.ptr # NULL) =>
           \E i \in DOMAIN FreeList :
             /\ FreeList[i][1] <= last'.ptr
             /\ last'.ptr + size_align_size(last'.layout)
                  <= FreeList[i][1] + FreeList[i][2] ]_vars

\* C25 witness: two blocks that lie side by side were freed, and an alloc
\* that would fit in the two together has failed.
C25_Witness ==
  /\ strategy = "linked" /\ last.op = "alloc" /\ last.ptr = NULL
  /\ live = {}
  /\ \E i, j \in DOMAIN FreeList :
       /\ Adjacent(i, j)
       /\ RoundUp(FreeList[i][1], size_align_align(last.layout))
            + size_align_size(last.layout) <= FreeList[j][1] + FreeList[j][2]

\* C26: size_align gives n = max(size rounded up to a multiple of
\* max(align, 8), 16), at least the requested size, and the alignment
\* max(align, 8); alloc reserves [p, p + n): what is left of the node begins
\* at p + n; dealloc of p with the same layout puts the node (p, n) on the
\* list: the same region.
C26_NormalizedRoundTrip ==
  /\ []((eval.f = "size_align" /\ eval.done) =>
          /\ eval.out[1] = Max(RoundUp(eval.in.size, Max(eval.in.align, 8)), 16)
          /\ eval.out[2] = Max(eval.in.align, 8)
          /\ eval.out[1] >= eval.in.size
          /\ eval.out[1] % eval.out[2] = 0)
  /\ [][ /\ (LinkedAllocStep /\ last'.ptr # NULL) =>
              \E i \in {AcceptedPosition(last'.layout)} :
                \E node_end \in {FreeList[i][1] + FreeList[i][2]} :
                  IF last'.ptr + eval.out[1] = node_end
                  THEN FreeList' = Without(FreeList, i)
                  ELSE FreeList' = <<<<last'.ptr + eval.out[1],
                                       node_end - (last'.ptr + eval.out[1])>>>>
                                   \o Without(FreeList, i)
         /\ LinkedDeallocStep =>
              /\ last'.layout = eval.in
              /\ FreeList'[1] = <<last'.ptr, eval.out[1]>> ]_vars

\* C26 witness: a block of 17 bytes aligned to 32 was allocated and freed:
\* the node put on the list is the 32 bytes from the block's address on.
C26_Witness ==
  /\ strategy = "linked" /\ last.op = "dealloc"
  /\ eval.f = "size_align" /\ eval.in = Layout(17, 32) /\ eval.out = <<32, 32>>
  /\ FreeList # <<>> /\ FreeList[1] = <<last.ptr, 32>>

\* C27: init(start, size) on the empty allocator leaves the one node
\* (start, size) on the list; when start is not a multiple of 8 or size is
\* less than 16 it panics with the list empty and no byte written.
C27_Init ==
  (strategy = "linked" /\ last.op = "init") =>
    IF heap.start % NODE_ALIGN = 0 /\ heap.size >= NODE_SIZE
    THEN /\ ~panicked
         /\ FreeList = <<<<heap.start, heap.size>>>>
         /\ DOMAIN mem = {heap.start, heap.start + 8}
    ELSE /\ panicked
         /\ head = NULL /\ FreeList = <<>>
         /\ mem = <<>> /\ written = {}

\* C27 witness: init was called with a start that is not node-aligned and
\* has panicked.
C27_Witness ==
  /\ strategy = "linked" /\ last.op = "init"
  /\ heap.start % NODE_ALIGN # 0 /\ heap.size >= NODE_SIZE
  /\ panicked

\* init was called with a node-aligned start and room for a node.
ValidInit ==
  inited /\ heap.start % NODE_ALIGN = 0 /\ heap.size >= NODE_SIZE

\* C28: after a valid init of the free-list allocator no call panics, so
\* the assertions of add_free_region held for every region a dealloc or an
\* alloc put on the list: every node of the list begins at a multiple of 8
\* and is at least 16 bytes long.
C28_RegionsHoldNodes ==
  (strategy = "linked" /\ ValidInit) =>
    /\ ~panicked
    /\ \A i \in DOMAIN FreeList :
         /\ FreeList[i][1] % NODE_ALIGN = 0
         /\ FreeList[i][2] >= NODE_SIZE
         /\ add_free_region_asserts(FreeList[i][1], FreeList[i][2], "panic")

\* C28 witness: on a heap of 40 bytes an alloc has left a remainder on the
\* list and a dealloc has put a block of an odd size in front of it.
C28_Witness ==
  /\ strategy = "linked" /\ ValidInit /\ heap.size = 40
  /\ last.op = "dealloc" /\ last.layout.size % 2 = 1
  /\ Len(FreeList) = 2
  /\ FreeList[1][1] = last.ptr
  /\ FreeList[2][1] = last.ptr + FreeList[1][2]

\* The bytes held by the live allocations of the free-list allocator.
RECURSIVE LiveBytes(_)
LiveBytes(allocations) ==
  IF allocations = {} THEN 0
  ELSE LET a == CHOOSE x \in allocations : TRUE
       IN  NormalizedSize(a) + LiveBytes(allocations \ {a})

\* C29 as stated: the free nodes and the normalized regions of the live
\* allocations together make up the heap, byte for byte.
C29_NoMemoryLost ==
  (strategy = "linked" /\ ValidInit) =>
    SumOfSizes(FreeList) + LiveBytes(live) = heap.size

\* What the free list and the live allocations hold together.
AccountedBytes == SumOfSizes(FreeList) + LiveBytes(live)

\* C29, what the code does: a dealloc and a failed alloc keep the
\* accounted bytes; a successful alloc loses the bytes between the start of
\* the accepted node and the aligned start of the block, which go neither
\* to the block nor back to the list.
C29_LostToPadding ==
  [][ /\ LinkedDeallocStep => AccountedBytes' = AccountedBytes
      /\ (LinkedAllocStep /\ last'.ptr = NULL) => AccountedBytes' = AccountedBytes
      /\ (LinkedAllocStep /\ last'.ptr # NULL) =>
           AccountedBytes' = AccountedBytes
             - (last'.ptr - FreeList[AcceptedPosition(last'.layout)][1]) ]_vars

\* C29 witness: every allocation has been freed and the free nodes hold less than the
\* heap.
C29_Witness ==
  /\ strategy = "linked" /\ ValidInit /\ last.op = "dealloc"
  /\ live = {}
  /\ SumOfSizes(FreeList) < heap.size

\* The number of nodes find_region passes to alloc_from_region before it
\* returns, or -1 when it has not returned after fuel nodes.
RECURSIVE Visited(_, _, _, _, _)
Visited(m, region, size, align, fuel) ==
  IF region = NULL THEN 0
  ELSE IF fuel = 0 THEN -1
  ELSE IF alloc_from_region(m, region, size, align, "wrap") >= 0 THEN 1
  ELSE LET rest == Visited(m, NodeNext(m, region), size, align, fuel - 1)
       IN  IF rest = -1 THEN -1 ELSE rest + 1

\* C30: the free list has no node twice and ends: it is no longer than the
\* number of words written; for every layout find_region returns after
\* looking at no more nodes than the list has, with a region or with None,
\* and no call of the free-list allocator fails to return.
C30_FiniteList ==
  strategy = "linked" =>
    /\ ~panicked
    /\ \A i, j \in DOMAIN FreeList : i # j => FreeList[i][1] # FreeList[j][1]
    /\ Len(FreeList) <= Cardinality(DOMAIN mem)
    /\ \A layout \in Layouts :
         /\ Visited(mem, head, size_align_size(layout), size_align_align(layout),
                    Cardinality(DOMAIN mem) + 1) \in 0..Len(FreeList)
         /\ \A ovf \in OverflowModes :
              ~find_region(LLState(head, mem, {}), size_align_size(layout),
                           size_align_align(layout), ovf).panic

\* C30 witness: an alloc has gone through a list of three nodes, found none
\* acceptable and returned the failure value.
C30_Witness ==
  /\ strategy = "linked" /\ last.op = "alloc" /\ last.ptr = NULL
  /\ Len(FreeList) = 3
  /\ Visited(mem, head, size_align_size(last.layout),
             size_align_align(last.layout), Cardinality(DOMAIN mem) + 1) = 3

C32_FailureExact ==
  (eval.f = "Bump_alloc" /\ eval.done) =>
    LET b == eval.in.b
        layout == eval.in.layout
        aligned_next == RoundUp(b.next, layout.align)
        fails == \/ aligned_next + layout.size > USIZE_MAX
                 \/ aligned_next + layout.size > b.heap_end
    IN  /\ ~eval.out.panic
        /\ eval.out.ptr = NULL <=> fails
        /\ eval.out.ptr = NULL => eval.out.st = b
        /\ eval.out.st.next >= b.next

\* C32, what the code does: the statement of C32_FailureExact holds when
\* next + align - 1 fits the address width; when it does not, align_up
\* panics in a build with overflow checks, and in a build without them
\* rounds to address 0, so that alloc returns the null pointer and, when
\* size <= heap_end, has set next to size and counted an allocation.
C32_FailureUnlessRoundingOverflows ==
  (eval.f = "Bump_alloc" /\ eval.done) =>
    LET b == eval.in.b
        layout == eval.in.layout
        aligned_next == RoundUp(b.next, layout.align)
        fails == \/ aligned_next + layout.size > USIZE_MAX
                 \/ aligned_next + layout.size > b.heap_end
    IN  IF ~align_up_overflows(b.next, layout.align)
        THEN /\ ~eval.out.panic
             /\ eval.out.ptr = NULL <=> fails
             /\ eval.out.ptr = NULL => eval.out.st = b
             /\ eval.out.st.next >= b.next
        ELSE /\ fails
             /\ eval.out.ptr = NULL
             /\ \/ eval.out.panic /\ eval.out.st = b
                \/ /\ ~eval.out.panic /\ layout.size > b.heap_end
                   /\ eval.out.st = b
                \/ /\ ~eval.out.panic /\ layout.size <= b.heap_end
                   /\ eval.out.st = [b EXCEPT !.next = layout.size,
                                              !.allocations = b.allocations + 1]

\* C32 witness: an alloc failed because aligned_next + size overflows the
\* address width, and left the allocator as it was.
C32_Witness ==
  /\ eval.f = "Bump_alloc" /\ eval.done
  /\ ~align_up_overflows(eval.in.b.next, eval.in.layout.align)
  /\ RoundUp(eval.in.b.next, eval.in.layout.align) + eval.in.layout.size
       > USIZE_MAX
  /\ RoundUp(eval.in.b.next, eval.in.layout.align) <= eval.in.b.heap_end
  /\ eval.in.layout.size <= eval.in.b.heap_end
  /\ eval.out.ptr = NULL /\ eval.out.st = eval.in.b /\ ~eval.out.panic
\* C33: a dealloc of the bump allocator that leaves allocations above zero
\* lowers it by 1 and leaves next, the bounds of the heap and memory as they
\* were, whichever block is freed; an alloc that follows grants no byte
\* below the old next; next goes down only in a dealloc that sets it to
\* heap_start with allocations at zero.
C33_NoIndividualReclaim ==
  [][ strategy = "bump" =>
        /\ (last'.op = "dealloc" /\ live' # live /\ bump.allocations > 1)
             => /\ bump' = [bump EXCEPT !.allocations = bump.allocations - 1]
                /\ mem' = mem
                /\ ~panicked'
        /\ (last'.op = "alloc" /\ live' # live)
             => /\ last'.ptr >= bump.next
                /\ bump'.next >= bump.next
        /\ (bump'.next < bump.next)
             => /\ last'.op = "dealloc" /\ live' # live
                /\ bump'.next = bump.heap_start /\ bump'.allocations = 0
    ]_vars

\* C33 witness: of two live blocks the most recent one was freed, and next
\* is still at its end.
C33_Witness ==
  /\ strategy = "bump" /\ inited
  /\ last.op = "dealloc" /\ bump.allocations = 1
  /\ \E a \in live : live = {a} /\ a.addr < last.ptr
  /\ bump.next = last.ptr + last.layout.size
\* C34: after init the bump allocator has heap_start <= next <= heap_end,
\* allocations is the number of blocks granted and not yet freed, every live
\* block lies in [heap_start, next), and no two live blocks overlap; a
\* dealloc moves next back to heap_start only when it frees the last live
\* block.
C34_BumpInvariant ==
  /\ []((strategy = "bump" /\ inited) =>
          /\ ~panicked
          /\ bump.heap_start <= bump.next /\ bump.next <= bump.heap_end
          /\ bump.allocations = Cardinality(live)
          /\ \A a \in live : bump.heap_start <= a.addr /\ EndOf(a) <= bump.next
          /\ \A a, b \in live :
               a # b => Disjoint(a.addr, a.layout.size, b.addr, b.layout.size))
  /\ [][ (strategy = "bump" /\ last'.op = "dealloc" /\ bump'.next # bump.next)
           => (live' = {} /\ bump'.allocations = 0) ]_vars

\* C34 witness: two blocks are live and fill the heap to its end.
C34_Witness ==
  /\ strategy = "bump" /\ inited
  /\ Cardinality(live) = 2 /\ bump.allocations = 2
  /\ bump.next = bump.heap_end
  /\ \E a \in live : a.addr = bump.heap_start
\* C35: before init an alloc of a layout with size > 0 returns the null
\* pointer in each of the three allocators, leaves the allocator and memory
\* as new() made them, and writes nothing.
C35_AllocBeforeInit ==
  /\ [](~inited =>
          /\ last.op \in {"new", "alloc"} /\ last.ptr = NULL
          /\ bump = BumpAllocator_new
          /\ head = LinkedListAllocator_new
          /\ list_heads = FixedSizeBlockAllocator_new
          /\ mem = <<>> /\ written = {} /\ live = {}
          /\ ~panicked)
  /\ [][ (~inited /\ last'.op = "alloc")
           => (last'.layout.size > 0 /\ ~inited' /\ last'.ptr = NULL
               /\ alloc_state' = alloc_state) ]_vars

\* C35 witness: the size-classed allocator was asked for a block of a class
\* before init, and failed.
C35_Witness ==
  /\ ~inited /\ strategy = "fixed"
  /\ last.op = "alloc" /\ last.ptr = NULL
  /\ list_index(last.layout) = 0
\* C36: the lock of WRITER or SERIAL1 is held only while the interrupt flag
\* is clear, and is free again when the flag is set again; no code that
\* reaches lock(), a handler or the code it interrupted, finds the lock
\* taken; every _print that was started returns and every handler returns.
C36_ConsoleLocks ==
  /\ [](console.frames # <<>> =>
          /\ \A l \in ConsoleLocks : console.lock[l] # 0 => ~console.ifl
          /\ ~(/\ Top.at >= 1 /\ PRINT_STEPS[Top.at] = "lock"
               /\ console.lock[Top.target] # 0))
  /\ [][ (~console.ifl /\ console'.ifl)
           => \A l \in ConsoleLocks : console'.lock[l] = 0 ]_vars
  /\ (Depth >= 1 /\ console.frames[1].at >= 1)
       ~> (Depth >= 1 /\ console.frames[1].at = 0)
  /\ (Depth > 1) ~> (Depth = 1)

\* C36 witness: the timer handler holds the lock of WRITER and writes; it
\* interrupted kernel code that had printed and was entering _print again.
C36_Witness ==
  /\ Depth = 2 /\ Top.ctx = "timer"
  /\ Top.at >= 1 /\ PRINT_STEPS[Top.at] = "write_fmt"
  /\ console.lock["WRITER"] = 2
  /\ console.frames[1].at = 1 /\ console.frames[1].target = "WRITER"
  /\ console.written # <<>>
\* C37: sleep_if_idle looks at the queue and reaches the halt with the
\* interrupt flag clear, and halts only with the queue empty; the CPU is
\* never halted while the queue holds a task ID; whenever a task ID is in
\* the queue the executor comes to run_ready_tasks, and polls the task if
\* it is still one of its tasks.
C37_NoLostWakeup ==
  /\ [](executor.pc \in {"is_empty", "enable_and_hlt", "enable"}
          => ~executor.ifl)
  /\ [](executor.pc \in {"enable_and_hlt", "hlt"} => executor.queue = <<>>)
  /\ [](~executor.panic)
  /\ (executor.queue # <<>>) ~> (executor.pc = "pop")
  /\ \A t \in TaskIDs :
       (t \in Range(executor.queue) /\ t \in executor.tasks)
         ~> (executor.pc = "poll" /\ executor.cur = t)

\* C37 witness: an interrupt woke a task while the CPU was halted, and the
\* executor polls that task.
C37_Witness ==
  /\ executor.pc = "poll" /\ executor.from_hlt
  /\ executor.cur \in executor.tasks
  /\ executor.queue = <<>>
\* C38: when the second pop of poll_next finds nothing, the queue is empty
\* and the waker is registered; poll_next returns Pending with no scancode
\* in the queue that was pushed before the waker was registered; a task
\* left after Pending and not woken has an empty queue and its waker
\* registered, and the next add_scancode that pushes wakes it.
C38_NoLostScancode ==
  /\ []((scancodes.pc = "return" /\ scancodes.result = "Pending")
          => /\ \A i \in DOMAIN scancodes.queue : ~scancodes.queue[i].old
             /\ scancodes.waker \/ scancodes.runnable
             /\ scancodes.queue # <<>> => scancodes.runnable)
  /\ []((scancodes.pc = "idle" /\ ~scancodes.runnable)
          => (scancodes.queue = <<>> /\ scancodes.waker))
  /\ [][ /\ (scancodes.pc = "pop_again" /\ scancodes'.result = "Pending")
             => (scancodes.queue = <<>> /\ scancodes.waker)
         /\ (/\ scancodes.pc = "idle" /\ ~scancodes.runnable
             /\ Len(scancodes'.queue) > Len(scancodes.queue))
             => scancodes'.runnable
       ]_vars

\* C38 witness: add_scancode pushed between the second pop, which found
\* nothing, and the return of Pending: the waker is taken and the task is
\* woken.
C38_Witness ==
  /\ scancodes.pc = "return" /\ scancodes.result = "Pending"
  /\ scancodes.queue # <<>> /\ ~scancodes.waker /\ scancodes.runnable
\* The number of frames in the usable regions of memory_map before region i.
RECURSIVE FramesBefore(_, _)
FramesBefore(memory_map, i) ==
  IF i <= 1 THEN 0
  ELSE FramesBefore(memory_map, i - 1)
       + (IF memory_map[i - 1].region_type = "Usable"
          THEN memory_map[i - 1].end_frame - memory_map[i - 1].start_frame
          ELSE 0)

\* C39: the k-th call of allocate_frame returns the k-th 4 KiB frame of the
\* usable regions in the order of the map, and None when the usable regions
\* have fewer than k frames; no frame is returned twice, a None is followed
\* by None only, and the heap pages init_heap has mapped have pairwise
\* distinct frames, each one returned by a call.
C39_FrameAllocator ==
  LET map == boot.memory_map
      total == FramesBefore(map, Len(map) + 1)
  IN  /\ Len(boot.got) = boot.next
      /\ \A k \in DOMAIN boot.got :
           IF k > total THEN boot.got[k] = -1
           ELSE \E i \in DOMAIN map :
                  /\ map[i].region_type = "Usable"
                  /\ FramesBefore(map, i) < k
                  /\ k <= FramesBefore(map, i + 1)
                  /\ boot.got[k] =
                       (map[i].start_frame + k - FramesBefore(map, i) - 1)
                         * PAGE_SIZE
      /\ \A j, k \in DOMAIN boot.got :
           /\ (j < k /\ boot.got[j] # -1) => boot.got[j] # boot.got[k]
           /\ (j < k /\ boot.got[j] = -1) => boot.got[k] = -1
      /\ \A p, q \in DOMAIN boot.frames :
           /\ p # q => boot.frames[p] # boot.frames[q]
           /\ \E k \in DOMAIN boot.got : boot.got[k] = boot.frames[p]

\* C39 witness: both heap pages are mapped, to frames of two usable regions
\* of which the second one in the map has the lower addresses, and later
\* calls have returned None.
C39_Witness ==
  /\ boot.pc = "init"
  /\ Cardinality(DOMAIN boot.frames) = BootHeapPages
  /\ Len(boot.memory_map) = 2
  /\ boot.memory_map[2].end_frame <= boot.memory_map[1].start_frame
  /\ boot.got[1] > boot.got[2]
  /\ Len(boot.got) >= 4
  /\ boot.got[Len(boot.got)] = -1 /\ boot.got[Len(boot.got) - 1] = -1
====
